---- MODULE Spec2Model ----
(***************************************************************************)
(* Model of the flush engine of the ORM (flusher, its transaction          *)
(* handling, the local / remote cache protocol and the lazy consumer).     *)
(*                                                                         *)
(* One flusher of one engine is modelled.  Three schemas are registered:   *)
(*   "A"  pool "p1", local cache and redis cache, one cached index with    *)
(*        no tracked fields (the cacheAll index), a reference column;      *)
(*   "B"  pool "p2", no cache;                                             *)
(*   "C"  pool "p3", no cache, a log table and three dirty streams.        *)
(* All have one value column `Name` next to `ID`; there is no search       *)
(* index and no FakeDelete column, so those branches of flush() are not    *)
(* entered by the entities of this model.                                  *)
(***************************************************************************)
EXTENDS Integers, Sequences, FiniteSets, TLC

----------------------------------------------------------------------------
(* Bounds of the model *)

\* seconds the clock of the local cache advances, and calls a goroutine makes
\* on the local cache
MaxNow == 2
MaxCacheOps == 1
\* largest row id a table holds
MaxID == 3
\* stand-in for the track limit (10000 in Track: the panic is at limit + 1)
TrackLimit == 3
\* flush calls a goroutine makes in one behaviour
MaxCalls == 1
\* driver faults injected in one behaviour
MaxFaults == 1
\* envelopes waiting in orm-lazy-channel
MaxQueue == 1
\* flush calls a goroutine makes in one behaviour of the lazy specification
MaxLazyCalls == 3
\* flush calls a goroutine makes in one behaviour of the events specification
MaxEventCalls == 2
\* versions of the search index created in one behaviour
MaxIndexID == 2
\* bits of the stand-in for a 64-bit word (int64, uint64)
WordBits == 5
\* bits of the stand-in for an 8-bit word (int8, uint8)
ByteBits == 3
\* largest id an Indexer returns
MaxCursor == 2
\* stand-in for the page size of the cascade search (1000 in flush)
PageSize == 1
\* pages a flush fetches for cascading deletes in one behaviour
MaxPages == 4
\* calls of flush for unsaved references that wait for a nested one
MaxDepth == 3
\* transaction objects that Begin returns in one behaviour
MaxTx == 2
\* calls of Begin, Commit and Rollback in one behaviour
MaxDBOps == 4
\* calls on a RedisPipeLine in one behaviour
MaxPipeOps == 4

----------------------------------------------------------------------------
(* Registry: entities, schemas, pools *)

Goroutines == {"g1", "g2"}
Entities == {"e1", "e2", "e3"}
\* the entities of the schema with a log table and dirty streams
EventEntities == {"e4", "e5"}
\* entities of schema "B" with a reference column: e6 refers to e7 and e7
\* to e8; e9 carries an OnDuplicateKeyUpdate clause
RefEntities == {"e6", "e7", "e8"}
DupEntities == {"e9"}
\* entities of schema "A" whose reference column, tagged cascade, points to
\* e3 of schema "B"
CascadeEntities == {"c1", "c2"}
\* new entities of schema "B" that refer to each other
CycleEntities == {"k1", "k2"}
AllEntities == Entities \cup EventEntities \cup RefEntities \cup DupEntities
                 \cup CascadeEntities \cup CycleEntities
\* the entities an application tracks next to them
RefScope == {"e1", "e6", "e7", "e9"}
Schemas == {"A", "B", "C"}
Pools == {"p1", "p2", "p3"}
Vals == {"a", "b"}
\* NULL column value
Null == ""
\* ids an application sets on an entity before it is inserted, and the
\* entities it does that to
PresetIDs == {1}
PresetEntities == {"e2", "e5"}
\* the Name an entity is created with
InitialName(e) == IF e \in {"e2", "e5"} THEN "b" ELSE "a"
\* the string columns of a schema, the Code an entity is created with and
\* the length of the columns
Columns == {"Name", "Code"}
InitialCode(e) == "k"
length == 2
\* schema.GetUniqueIndexes(): the column lists of the unique indexes
GetUniqueIndexes(s) == IF s = "B" THEN {<<"Name", "Code">>} ELSE {}

tableSchema(e) ==
  IF e = "e3" \/ e \in RefEntities \cup DupEntities \cup CycleEntities THEN "B"
  ELSE IF e \in EventEntities THEN "C" ELSE "A"
\* schema.refOne: the entity a reference field points to
NoRef == ""
refOne(e) ==
  IF e = "e6" THEN "e7" ELSE IF e = "e7" THEN "e8"
  ELSE IF e = "k1" THEN "k2" ELSE IF e = "k2" THEN "k1"
  ELSE IF e \in CascadeEntities THEN "e3" ELSE NoRef
\* schema.GetUsage(registry): the schemas with a reference column to s, and
\* whether that column carries the tag cascade
GetUsage(s) == IF s = "B" THEN {"A", "B"} ELSE {}
isCascade(refSchema) == refSchema = "A"
\* orm.onDuplicateKeyUpdate # nil
onDuplicateKeyUpdate(e) == e \in DupEntities
mysqlPoolName(s) == IF s = "A" THEN "p1" ELSE IF s = "B" THEN "p2" ELSE "p3"
SchemaOfPool(p) == IF p = "p1" THEN "A" ELSE IF p = "p2" THEN "B" ELSE "C"
getAutoincrement(p) == IF p = "p2" THEN 1 ELSE 2
GetLocalCache(s) == s \in {"A", "D"}
GetRedisCache(s) == s \in {"A", "D"}
cacheAllFakeReferenceKey == "all"
\* tableSchema.hasFakeDelete
hasFakeDelete(s) == s = "D"
\* the definition of a cached index
CachedIndex(name, TrackedFields, QueryFields) ==
  [name |-> name, TrackedFields |-> TrackedFields, QueryFields |-> QueryFields]
\* cachedIndexesAll: the cached indexes of a schema. Schema "D" (columns
\* Name, Code, FakeDelete) has indexes with tracked fields; it has no table in
\* the flush machine, only the cache-key functions are run on its rows
cachedIndexesAll(s) ==
  IF s = "A" THEN {CachedIndex("all", <<>>, <<>>)}
  ELSE IF s = "D"
  THEN {CachedIndex("all", <<>>, <<>>),
        CachedIndex("byName", <<"Name">>, <<"Name">>),
        CachedIndex("byBoth", <<"Name", "Code">>, <<"Name", "Code", "FakeDelete">>)}
  ELSE {}

\* tableSchema.hasLog
hasLog(s) == s = "C"
\* tableSchema.dirtyFields: stream -> columns ("ORM": any change)
dirtyFields(s) ==
  IF s = "C"
  THEN <<[stream |-> "dirtyName", columns |-> <<"Name">>],
         [stream |-> "dirtyAll", columns |-> <<"ORM">>],
         [stream |-> "dirtyID", columns |-> <<"ID">>]>>
  ELSE <<>>

logChannelName == "orm-log-channel"
redisSearchIndexerChannelName == "orm-redis-search-channel"
StreamNames == {logChannelName, redisSearchIndexerChannelName,
                "dirtyName", "dirtyAll", "dirtyID"}

\* an event of a stream: a dirty event {E, I, A}, a log value (A = "log")
\* or a search-indexer event (A = "index"); valid tells whether the payload
\* can be deserialised
Event(E, I, A) == [valid |-> TRUE, E |-> E, I |-> I, A |-> A]

----------------------------------------------------------------------------
(* Cache keys and values *)

getCacheKey(s, id) == <<s, "row", id>>
getCacheKeySearch(s, indexName) == <<s, indexName, 0>>
\* getCacheKeySearch(schema, indexName, attributes...): the key of one
\* parameter tuple of a cached index
getCacheKeySearchOf(s, indexName, attributes) == getCacheKeySearch(s, indexName) \o attributes
CacheKeys == {getCacheKey("A", i) : i \in 0..MaxID} \cup {getCacheKeySearch("A", "all")}

Absent == [kind |-> "absent", ID |-> 0, Name |-> Null, ids |-> {}]
cacheNilValue == [kind |-> "nil", ID |-> 0, Name |-> Null, ids |-> {}]
buildLocalCacheValue(dbData) == [kind |-> "row", ID |-> dbData.ID, Name |-> dbData.Name, ids |-> {}]
QueryResult(ids) == [kind |-> "ids", ID |-> 0, Name |-> Null, ids |-> ids]

\* LocalCache.MSet: pairs applied in order
RECURSIVE MSet(_, _)
MSet(cache, pairs) ==
  IF pairs = <<>> THEN cache
  ELSE MSet([cache EXCEPT ![pairs[1].key] = pairs[1].value], Tail(pairs))

\* LocalCache.Remove / redis Del of a list of keys
RemoveKeys(cache, keys) ==
  [k \in DOMAIN cache |-> IF \E j \in 1..Len(keys) : keys[j] = k THEN Absent ELSE cache[k]]

----------------------------------------------------------------------------
(* The database: one table per schema, rows id -> Name *)

NoRow == "-"
EmptyTable == [i \in 1..MaxID |-> NoRow]

\* smallest value of the auto-increment sequence of step a that is above id
RECURSIVE NextAutoAbove(_, _, _)
NextAutoAbove(next, a, id) ==
  IF next > id THEN next ELSE NextAutoAbove(next + a, a, id)

\* INSERT INTO tbl(cols) VALUES (..),(..): the rows are stored in order; a
\* row whose ID column is not sent (or is NULL) takes the next
\* auto-increment value.  Result: ok (FALSE: duplicate key or id space
\* of the model exhausted), the new table, the new counter and
\* LastInsertId (the first generated id).
RECURSIVE ExecInsert(_, _, _, _, _, _)
ExecInsert(tbl, next, a, hasIDColumn, rows, last) ==
  IF rows = <<>> THEN [ok |-> TRUE, dup |-> FALSE, table |-> tbl, next |-> next, lastID |-> last]
  ELSE LET r == rows[1]
           explicit == hasIDColumn /\ r.ID > 0
           id == IF explicit THEN r.ID ELSE next
       IN IF id > MaxID
          THEN [ok |-> FALSE, dup |-> FALSE, table |-> tbl, next |-> next, lastID |-> last]
          ELSE IF tbl[id] # NoRow
          THEN [ok |-> FALSE, dup |-> TRUE, table |-> tbl, next |-> next, lastID |-> last]
          ELSE ExecInsert([tbl EXCEPT ![id] = r.Name],
                          IF explicit THEN NextAutoAbove(next, a, id) ELSE next + a,
                          a, hasIDColumn, Tail(rows),
                          IF ~explicit /\ last = 0 THEN id ELSE last)

\* UPDATE tbl SET Name = v WHERE ID = id
ExecUpdate(tbl, id, v) ==
  IF id \in DOMAIN tbl /\ tbl[id] # NoRow THEN [tbl EXCEPT ![id] = v] ELSE tbl

\* DELETE FROM tbl WHERE ID IN ids
ExecDelete(tbl, ids) ==
  [i \in DOMAIN tbl |-> IF i \in ids THEN NoRow ELSE tbl[i]]

----------------------------------------------------------------------------
(* State *)

VARIABLES
  ent,          \* the entity objects of the application
  table,        \* database tables, per schema
  autoNext,     \* auto-increment counter, per schema
  inTransaction,\* DB.inTransaction, per pool
  txSnap,       \* table contents at Begin, per pool (what Rollback restores)
  localCache,   \* local LRU cache
  redisCache,   \* remote cache
  lazyChannel,  \* envelopes in orm-lazy-channel
  f,            \* the flusher
  rf,           \* the redisFlusher object f.redisFlusher points to
  engine,       \* engine.afterCommitLocalCacheSets / afterCommitRedisFlusher
  mutex,        \* f.mutex: "free" or the goroutine holding it
  gs,           \* per goroutine: where it is in its call
  fr,           \* frame of the flush body that runs under the mutex
  glog,         \* per goroutine: the statements and cache operations of its call
  snap,         \* cache contents when the running flush body started
  faults,       \* driver faults injected so far
  calls,        \* per goroutine: flush calls made so far
  ctxTracked,   \* ormImplementation.trackedEntities: (schema, id) -> EntityFlush
  lastEdit,     \* per entity: what its last EditEntityField call was given and returned
  streams,      \* the log channel, the search channel and the dirty streams
  logTable,     \* rows of the log table of schema "C" (entity_id)
  bgLast,       \* the last event the background consumer dispatched
  indices,      \* ids of the versions of the search index that exist
  lastIDKeys,   \* redis: per index version, the id the Indexer stopped at (-1: no key)
  indexing,     \* the for loop of handleRedisIndexerEvent: position, cursor, last Indexer call
  registry,     \* the source Registry: per field nil or the address of its map
  validated,    \* the validatedRegistry that Validate returned: per field the address of its map
  heap,         \* the maps of both registries: address -> set of <<key, value>>
  bindCall,     \* the last call of a bind setter or field setter: what it was given and returned
  keysCall,     \* the last update of a row of schema "D": the row, the bind and the keys invalidated
  upsertCall,   \* the last flush of a new entity with an OnDuplicateKeyUpdate clause on table U
  logLogger,    \* BackgroundConsumer.logLogger is not nil
  cachePool,    \* one LocalCache pool: its mutex, its lru, the clock and the call each goroutine is in
  dbState,      \* the DB object of a pool and the transaction objects its Begin returned
  pipeLine      \* a RedisPipeLine and the calls made on it

\* the state of the field-level edit path
editVars == <<ctxTracked, lastEdit>>

\* the streams next to orm-lazy-channel and what their consumer leaves
bgVars == <<streams, logTable, bgLast, indices, lastIDKeys, indexing>>

\* the registries, and the calls of the setters of the schema
regVars == <<registry, validated, heap>>
\* objects checked on their own, outside the flush machine
objVars == <<keysCall, upsertCall, logLogger, cachePool, dbState, pipeLine>>
sideVars == <<regVars, bindCall, objVars>>

vars == <<ent, table, autoNext, inTransaction, txSnap, localCache, redisCache,
          lazyChannel, f, rf, engine, mutex, gs, fr, glog, snap, faults, calls,
          ctxTracked, lastEdit, streams, logTable, bgLast, indices, lastIDKeys,
          indexing, registry, validated, heap, bindCall,
          keysCall, upsertCall, logLogger, cachePool, dbState, pipeLine>>

NewEntity(e) == [ID |-> 0, Name |-> InitialName(e), dBData |-> [ID |-> 0, Name |-> Null],
                 inDB |-> FALSE, delete |-> FALSE]

NewFlusher == [trackedEntities |-> <<>>, trackedEntitiesCounter |-> 0,
               updateSQLs |-> [p \in Pools |-> <<>>],
               deleteBinds |-> [s \in Schemas |-> {}],
               localCacheDeletes |-> <<>>, localCacheSets |-> <<>>,
               lazyMap |-> [made |-> FALSE, q |-> <<>>, cl |-> <<>>, cr |-> <<>>,
                           l |-> <<>>, d |-> <<>>],
               redisFlusher |-> FALSE]

NoFrame == [pc |-> "none", owner |-> "g1", lazy |-> FALSE, transaction |-> FALSE,
            tx |-> FALSE, i |-> 0, dbPools |-> {}, left |-> {},
            insertKeys |-> [s \in Schemas |-> "unset"],
            insertRows |-> [s \in Schemas |-> <<>>],
            inserted |-> {}, lastInsertId |-> [s \in Schemas |-> 0],
            entities |-> <<>>, root |-> TRUE, referencesToFlash |-> {},
            rest |-> <<>>, nested |-> FALSE,
            types |-> {}, cur |-> "", page |-> {}, pages |-> 0, stack |-> <<>>]

EmptyCache == [k \in CacheKeys |-> Absent]
NoSnap == [local |-> EmptyCache, remote |-> EmptyCache]

IdleG == [pc |-> "idle", call |-> "", res |-> "", err |-> "", concurrent |-> FALSE]

\* keys of ormImplementation.trackedEntities: schema index and entity id
SlotKeys == Schemas \X (0..MaxID)
\* a bind without the field
NoBind == "~"
\* a Bind without keys
NoBinds == [c \in Columns |-> NoBind]
NoSlot == [kind |-> "none", value |-> "", newBind |-> NoBinds, oldBind |-> NoBinds]
NoEdit == [res |-> "", value |-> NoBind, first |-> NoBind, tick |-> 0]
NoDispatch == [stream |-> "", outcome |-> "", acks |-> 0, ops |-> <<>>]
NoIndexerCall == [id |-> 0, nextID |-> 0, hasMore |-> FALSE, called |-> FALSE]
NotIndexing == [pc |-> "idle", id |-> 0, n |-> 0, last |-> NoIndexerCall]

\* the map fields of Registry and of validatedRegistry, and the addresses
\* of the maps that Register* and Validate make
RegistryFields == {"entities", "localCachePools", "enums", "redisSearchIndices",
                   "redisStreamGroups", "redisStreamPools"}
ValidatedFields == {"entities", "localCacheServers", "enums", "redisSearchIndexes",
                    "redisStreamGroups", "redisStreamPools"}
Addr == {<<"r", x>> : x \in RegistryFields} \cup {<<"v", x>> : x \in ValidatedFields}
nil == <<"nil", "">>
NewRegistry == [x \in RegistryFields |-> nil]
NotValidated == [x \in ValidatedFields |-> nil]

\* a Go value handed to a setter: its dynamic type, whether it is a nil
\* pointer, and its number (a float in hundredths), digits or time
Value(kind, isNil, val, str) == [kind |-> kind, isNil |-> isNil, val |-> val, str |-> str]
untypedNil == Value("nil", TRUE, 0, <<>>)
\* what a bind setter returns: (value, nil), (nil, nil), or an error
Bound(v) == [err |-> "", null |-> FALSE, v |-> v]
NullBind == [err |-> "", null |-> TRUE, v |-> untypedNil]
BindError(message) == [err |-> message, null |-> FALSE, v |-> untypedNil]
\* a runtime panic of the setter (no BindError)
Panics == [err |-> "panic", null |-> FALSE, v |-> untypedNil]
\* how a column was declared: what its setters were created with
Column(type, unsigned, nullable, min, max, layout) ==
  [type |-> type, unsigned |-> unsigned, nullable |-> nullable, min |-> min, max |-> max,
   layout |-> layout]
NoColumn == Column("", FALSE, FALSE, 0, 0, "")
\* the last setter call: the bind of what was given; once the field setter has
\* run (stored), the field, its bind, and the bind of the canonical value
\* no row of schema "D" was updated yet
NoKeysCall == [op |-> "", old |-> <<>>, bind |-> {}, new |-> <<>>,
               local |-> <<>>, remote |-> <<>>]

\* a new entity of table U: the columns, orm.loaded and orm.inDB
EntityU(ID, Name, Code, Note, loaded, inDB) ==
  [ID |-> ID, Name |-> Name, Code |-> Code, Note |-> Note, loaded |-> loaded, inDB |-> inDB]
\* no entity with an OnDuplicateKeyUpdate clause was flushed yet
NoUpsert == [done |-> FALSE, table |-> {}, given |-> EntityU(0, Null, Null, Null, FALSE, FALSE),
             onUpdate |-> {}, order |-> <<>>, affected |-> 0, lastID |-> 0, sent |-> 0,
             entity |-> EntityU(0, Null, Null, Null, FALSE, FALSE), after |-> {},
             cache |-> ""]

\* the keys of the LocalCache pool that is checked on its own, what the lru
\* holds for a key, and a call of a goroutine on the pool
LCKeys == {"k1", "k2"}
Entry(has, value, time, isTTL) == [has |-> has, value |-> value, time |-> time, isTTL |-> isTTL]
NoEntry == Entry(FALSE, 0, 0, FALSE)
NoCacheCall == [name |-> "", pc |-> "idle", key |-> "", ttl |-> 0, value |-> 0, i |-> 0,
                read |-> NoEntry, ret |-> 0, err |-> "", provided |-> FALSE,
                interleaved |-> FALSE, with |-> {}]
NewLocalCache == [m |-> "free", lru |-> [k \in LCKeys |-> NoEntry], now |-> 0, provided |-> 0,
                  n |-> [g \in Goroutines |-> 0], op |-> [g \in Goroutines |-> NoCacheCall]]

\* a DB object: db.transaction, and what its client is (the pool, a driver
\* transaction, or nil after Commit)
DBObject(transaction, client) == [transaction |-> transaction, client |-> client]
\* the DB object of a pool, no transaction object yet, no call made
NewDB == [objs |-> <<DBObject(FALSE, "db")>>, calls |-> <<>>]

\* a RedisPipeLine as NewPipeLine returns it: nothing queued, not executed
NewPipeLine == [executed |-> FALSE, commands |-> 0, queued |-> <<>>, sent |-> <<>>,
                calls |-> <<>>]

NoBindCall == [setter |-> "", col |-> NoColumn, given |-> untypedNil, bind |-> NullBind,
               stored |-> FALSE, field |-> untypedNil, again |-> NullBind, fixed |-> NullBind]

\* what is stored when a behaviour starts: nothing, or the rows of e1 and e4
\* that an earlier run inserted and this run has loaded
StoredAtStart == {{}, {"e1", "e4"}}

\* the rows of a parent and its two children that an earlier run inserted
CascadeStored == {"e3", "c1", "c2"}
\* three rows of one pool, and the row the third refers to
BatchStored == {"e1", "e2", "c2", "e3"}
\* the id of the row of a stored entity
LoadedID(e) == IF e = "c2" THEN 1 + getAutoincrement(mysqlPoolName(tableSchema(e)))
               ELSE IF e = "e2" THEN 2 ELSE 1

LoadedEntity(e) == [ID |-> LoadedID(e), Name |-> InitialName(e),
                    dBData |-> [ID |-> LoadedID(e), Name |-> InitialName(e)],
                    inDB |-> TRUE, delete |-> FALSE]

\* the state after construction, with the rows of `stored` in the tables
\* and their entities loaded
InitWith(stored) ==
  /\ ent = [e \in AllEntities |-> IF e \in stored THEN LoadedEntity(e) ELSE NewEntity(e)]
  /\ table = [s \in Schemas |->
                [i \in 1..MaxID |->
                   IF \E e \in stored : tableSchema(e) = s /\ LoadedID(e) = i
                   THEN InitialName(CHOOSE e \in stored : tableSchema(e) = s /\ LoadedID(e) = i)
                   ELSE NoRow]]
  /\ autoNext = [s \in Schemas |->
                   1 + Cardinality({e \in stored : tableSchema(e) = s})
                         * getAutoincrement(mysqlPoolName(s))]
  /\ inTransaction = [p \in Pools |-> FALSE]
  /\ txSnap = [p \in Pools |-> EmptyTable]
  /\ localCache = [k \in CacheKeys |-> Absent]
  /\ redisCache = [k \in CacheKeys |-> Absent]
  /\ lazyChannel = <<>>
  /\ f = NewFlusher
  /\ rf = [deletes |-> <<>>, publishes |-> <<>>, events |-> <<>>]
  /\ engine = [afterCommitLocalCacheSets |-> <<>>, afterCommitRedisFlusher |-> FALSE]
  /\ mutex = "free"
  /\ gs = [g \in Goroutines |-> IdleG]
  /\ fr = NoFrame
  /\ glog = [g \in Goroutines |-> <<>>]
  /\ snap = NoSnap
  /\ faults = 0
  /\ calls = [g \in Goroutines |-> 0]
  /\ ctxTracked = [k \in SlotKeys |-> NoSlot]
  /\ lastEdit = [e \in AllEntities |-> NoEdit]
  /\ streams = [n \in StreamNames |-> <<>>]
  /\ logTable = <<>>
  /\ bgLast = NoDispatch
  /\ indices = {}
  /\ lastIDKeys = [i \in 1..MaxIndexID |-> -1]
  /\ indexing = NotIndexing
  /\ registry = NewRegistry
  /\ validated = NotValidated
  /\ heap = [a \in Addr |-> {}]
  /\ bindCall = NoBindCall
  /\ keysCall = NoKeysCall
  /\ upsertCall = NoUpsert
  /\ logLogger = FALSE
  /\ cachePool = NewLocalCache
  /\ dbState = NewDB
  /\ pipeLine = NewPipeLine

Init == \E stored \in StoredAtStart : InitWith(stored)

\* a stored parent with two stored children
InitCascade == InitWith(CascadeStored)

\* three stored entities of pool p1
InitBatch == InitWith(BatchStored)

----------------------------------------------------------------------------
(* The application: entity mutation, Track / Delete / ForceDelete / Clear *)

Quiet == fr.pc = "none" /\ mutex = "free"

Ev(ev, x, k) == [ev |-> ev, x |-> x, k |-> k]
NoKey == <<"", "", 0>>

\* the application assigns a field of a persisted entity
SetField(g, e, v) ==
  /\ gs[g].pc = "idle" /\ Quiet
  /\ ent[e].inDB /\ ~ent[e].delete
  /\ ent[e].Name # v
  /\ ent' = [ent EXCEPT ![e].Name = v]
  /\ UNCHANGED <<table, autoNext, inTransaction, txSnap, localCache, redisCache,
                 lazyChannel, f, rf, engine, mutex, gs, fr, glog, snap, faults, calls>>
  /\ UNCHANGED <<sideVars, editVars, bgVars>>

\* the application presets the ID of an entity that is not persisted yet
SetID(g, e, id) ==
  /\ gs[g].pc = "idle" /\ Quiet
  /\ e \in PresetEntities
  /\ ~ent[e].inDB /\ ent[e].ID = 0
  /\ \A j \in 1..Len(f.trackedEntities) : f.trackedEntities[j] # e
  /\ ent' = [ent EXCEPT ![e].ID = id]
  /\ UNCHANGED <<table, autoNext, inTransaction, txSnap, localCache, redisCache,
                 lazyChannel, f, rf, engine, mutex, gs, fr, glog, snap, faults, calls>>
  /\ UNCHANGED <<sideVars, editVars, bgVars>>

\* the test of Track that panics with "track limit 10000 exceeded"
TrackLimitExceeded(counter) == counter = TrackLimit + 1

\* flusher.Track for one entity (markToDelete / forceMarkToDelete first when
\* the call is Delete / ForceDelete); the entity is appended and counted
\* before the limit is tested.  The application tracks an entity once and
\* deletes a stored entity once.
TrackCall(g, e, call) ==
  /\ gs[g].pc = "idle" /\ mutex = "free"
  /\ IF call = "Track"
     THEN \A j \in 1..Len(f.trackedEntities) : f.trackedEntities[j] # e
     ELSE ent[e].inDB /\ ~ent[e].delete
  /\ ent' = IF call = "Track" THEN ent ELSE [ent EXCEPT ![e].delete = TRUE]
  /\ f' = [f EXCEPT !.trackedEntities = Append(@, e),
                    !.trackedEntitiesCounter = @ + 1]
  /\ gs' = IF TrackLimitExceeded(f.trackedEntitiesCounter + 1)
           THEN [gs EXCEPT ![g] = [pc |-> "returned", call |-> call, res |-> "panic",
                                   err |-> "limit", concurrent |-> FALSE]]
           ELSE gs
  /\ glog' = [glog EXCEPT ![g] = <<>>]
  /\ UNCHANGED <<table, autoNext, inTransaction, txSnap, localCache, redisCache,
                 lazyChannel, rf, engine, mutex, fr, snap, faults, calls>>
  /\ UNCHANGED <<sideVars, editVars, bgVars>>

Track(g, e) == TrackCall(g, e, "Track")
Delete(g, e) == TrackCall(g, e, "Delete")
ForceDelete(g, e) == TrackCall(g, e, "ForceDelete")

\* flusher.clear
clear(fl) == [fl EXCEPT !.updateSQLs = [p \in Pools |-> <<>>],
                        !.deleteBinds = [s \in Schemas |-> {}],
                        !.localCacheDeletes = <<>>,
                        !.localCacheSets = <<>>]

\* flusher.Clear
ClearFlusher(fl) == clear([fl EXCEPT !.trackedEntities = <<>>, !.trackedEntitiesCounter = 0])

Clear(g) ==
  /\ gs[g].pc = "idle" /\ mutex = "free"
  /\ f # ClearFlusher(f)
  /\ f' = ClearFlusher(f)
  /\ UNCHANGED <<ent, table, autoNext, inTransaction, txSnap, localCache, redisCache,
                 lazyChannel, rf, engine, mutex, gs, fr, glog, snap, faults, calls>>
  /\ UNCHANGED <<sideVars, editVars, bgVars>>

\* the caller has looked at the result of its call
Ack(g) ==
  /\ gs[g].pc = "returned"
  /\ gs' = [gs EXCEPT ![g] = IdleG]
  /\ glog' = [glog EXCEPT ![g] = <<>>]
  /\ snap' = IF mutex = "free" THEN NoSnap ELSE snap
  /\ UNCHANGED <<ent, table, autoNext, inTransaction, txSnap, localCache, redisCache,
                 lazyChannel, f, rf, engine, mutex, fr, faults, calls>>
  /\ UNCHANGED <<sideVars, editVars, bgVars>>

----------------------------------------------------------------------------
(* Entry of the flush calls *)

CallKinds == {"Flush", "FlushLazy", "FlushInTransaction", "FlushWithCheck",
              "FlushInTransactionWithCheck", "FlushWithFullCheck"}
lazyOf(call) == call = "FlushLazy"
transactionOf(call) == call \in {"FlushInTransaction", "FlushInTransactionWithCheck"}

\* goroutines that are inside a flush call when g enters one
Running(g) == {h \in Goroutines \ {g} : gs[h].pc \in {"waiting", "body"}}

\* flushTrackedEntities up to f.mutex.Lock(): the counter is read before the
\* mutex is taken; max is the call budget of the specification
CallWithin(g, call, max) ==
  /\ gs[g].pc = "idle"
  /\ calls[g] < max
  /\ calls' = [calls EXCEPT ![g] = @ + 1]
  /\ lazyOf(call) => Len(lazyChannel) + Len(rf.publishes) < MaxQueue
  /\ IF f.trackedEntitiesCounter = 0
     THEN gs' = [gs EXCEPT ![g] = [pc |-> "returned", call |-> call, res |-> "nil",
                                   err |-> "", concurrent |-> FALSE]]
     ELSE gs' = [h \in Goroutines |->
                   IF h = g THEN [pc |-> "waiting", call |-> call, res |-> "", err |-> "",
                                  concurrent |-> Running(g) # {}]
                   ELSE IF h \in Running(g) THEN [gs[h] EXCEPT !.concurrent = TRUE]
                   ELSE gs[h]]
  /\ glog' = [glog EXCEPT ![g] = <<>>]
  /\ UNCHANGED <<ent, table, autoNext, inTransaction, txSnap, localCache, redisCache,
                 lazyChannel, f, rf, engine, mutex, fr, snap, faults>>
  /\ UNCHANGED <<sideVars, editVars, bgVars>>

CallFlush(g, call) == CallWithin(g, call, MaxCalls)

InsertTypes(frame) == {s \in Schemas : frame.insertKeys[s] # "unset"}
UpdatePools(fl) == {p \in Pools : fl.updateSQLs[p] # <<>>}
DeleteTypes(fl) == {s \in Schemas : fl.deleteBinds[s] # {}}

PhaseNo(pc) == CASE pc = "insert" -> 1 [] pc = "update" -> 2 [] pc = "delete" -> 3 [] OTHER -> 4

\* the next loop of flush that has something to iterate, from phase `from`
\* on; the loops over updateSQLs and deleteBinds are inside `if root`
NextPhase(frame, fl, from) ==
  IF PhaseNo(from) <= 1 /\ InsertTypes(frame) # {}
  THEN [frame EXCEPT !.pc = "insert", !.left = InsertTypes(frame)]
  ELSE IF frame.root /\ PhaseNo(from) <= 2 /\ UpdatePools(fl) # {}
  THEN [frame EXCEPT !.pc = "update", !.left = UpdatePools(fl)]
  ELSE IF frame.root /\ PhaseNo(from) <= 3 /\ DeleteTypes(fl) # {}
  THEN [frame EXCEPT !.pc = "delete", !.left = DeleteTypes(fl), !.types = DeleteTypes(fl),
                     !.cur = "", !.page = {}]
  ELSE [frame EXCEPT !.pc = "finish", !.left = {}]

\* entry of flush: the classification loop, or what follows it when no
\* entity is tracked any more
AfterBegin(frame, fl) ==
  IF fl.trackedEntities = <<>> THEN NextPhase(frame, fl, "insert")
  ELSE [frame EXCEPT !.pc = "classify"]

\* pools of the tracked entities (dbPools of flushTrackedEntities)
PoolsOfTracked(tracked) ==
  {mysqlPoolName(tableSchema(tracked[j])) : j \in 1..Len(tracked)}

\* sync.Mutex.Lock
CanLock(m) == m = "free"

\* ORM.getDirtyBind: an entity is dirty when it is marked to delete, not in
\* the database yet, or a field differs from dBData
isDirty(en) == en.delete \/ ~en.inDB \/ en.Name # en.dBData.Name

\* a tracked entity refers to an entity whose ID is 0; a tracked entity that
\* is not stored yet carries an OnDuplicateKeyUpdate clause
UnsavedReference(tracked, E) ==
  \E j \in 1..Len(tracked) : refOne(tracked[j]) # NoRef /\ E[refOne(tracked[j])].ID = 0
NewWithOnDuplicate(tracked, E) ==
  \E j \in 1..Len(tracked) : onDuplicateKeyUpdate(tracked[j]) /\ ~E[tracked[j]].inDB

\* ghost: what a flush is called with, logged when one of the two holds:
\* the fact, and with an unsaved reference the tracked entities and whether
\* each is dirty
Given(tracked, E) ==
  (IF UnsavedReference(tracked, E)
   THEN <<Ev("given", "reference", NoKey)>>
        \o [j \in 1..Len(tracked) |->
              Ev("tracked", tracked[j],
                 <<tableSchema(tracked[j]),
                   IF isDirty(E[tracked[j]]) THEN "dirty" ELSE "clean", 0>>)]
   ELSE <<>>)
  \o (IF NewWithOnDuplicate(tracked, E) THEN <<Ev("given", "onDuplicate", NoKey)>> ELSE <<>>)

RECURSIVE SetToSeq(_)
SetToSeq(S) == IF S = {} THEN <<>>
               ELSE LET x == CHOOSE y \in S : TRUE IN <<x>> \o SetToSeq(S \ {x})

\* ghost: what the buffers of the flusher hold when a call starts: pending
\* UPDATE statements of a pool, delete binds of a type, local-cache sets and
\* deletes, a lazy envelope
Leftover(fl) ==
  LET pools == SetToSeq(UpdatePools(fl))
      types == SetToSeq(DeleteTypes(fl))
  IN [j \in 1..Len(pools) |->
        Ev("left", "UPDATE", <<SchemaOfPool(pools[j]), "", Len(fl.updateSQLs[pools[j]])>>)]
     \o [j \in 1..Len(types) |-> Ev("left", "DELETE", <<types[j], "", 0>>)]
     \o [j \in 1..Len(fl.localCacheSets) |-> Ev("left", "lset", fl.localCacheSets[j].key)]
     \o [j \in 1..Len(fl.localCacheDeletes) |-> Ev("left", "lrem", fl.localCacheDeletes[j])]
     \o (IF fl.lazyMap.made THEN <<Ev("left", "lazy", NoKey)>> ELSE <<>>)

\* f.mutex.Lock() of flushTrackedEntities and the set-up of the call
Lock(g) ==
  /\ gs[g].pc = "waiting"
  /\ CanLock(mutex)
  /\ mutex' = g
  /\ gs' = [gs EXCEPT ![g].pc = "body"]
  /\ LET t == transactionOf(gs[g].call)
         pools == IF t THEN PoolsOfTracked(f.trackedEntities) ELSE {}
         fr0 == [NoFrame EXCEPT !.owner = g,
                                !.lazy = lazyOf(gs[g].call),
                                !.transaction = t,
                                !.tx = t,
                                !.i = 1,
                                !.entities = f.trackedEntities,
                                !.dbPools = pools,
                                !.left = pools]
         fr1 == [fr0 EXCEPT !.nested = UnsavedReference(f.trackedEntities, ent)]
     IN /\ fr' = IF pools # {} THEN [fr1 EXCEPT !.pc = "begin"] ELSE AfterBegin(fr1, f)
        /\ glog' = [glog EXCEPT ![g] = @ \o Leftover(f) \o Given(f.trackedEntities, ent)]
  /\ snap' = [local |-> localCache, remote |-> redisCache]
  /\ UNCHANGED <<ent, table, autoNext, inTransaction, txSnap, localCache, redisCache,
                 lazyChannel, f, rf, engine, faults, calls>>
  /\ UNCHANGED <<sideVars, editVars, bgVars>>

----------------------------------------------------------------------------
(* Faults: unwinding of flushTrackedEntities and of the checked wrappers *)

\* pools the deferred Rollback loop of flushTrackedEntities rolls back
\* (DB.Rollback returns at once when the pool is not in a transaction)
RolledBack(registered, inTx) ==
  IF registered THEN {p \in fr.dbPools : inTx[p]} ELSE {}

\* variant of resultOfFault in which FlushWithFullCheck unwinds like
\* flushWithCheck and re-panics what is not a key error
resultOfFaultRepanics(call, kind) ==
  IF call \in {"FlushWithCheck", "FlushInTransactionWithCheck", "FlushWithFullCheck"}
     /\ kind \in {"fk", "dup"}
  THEN "error" ELSE "panic"

\* what the caller of a faulting flush gets: the checked flushers return
\* ForeignKeyError / DuplicatedKeyError and re-panic the rest, the full
\* check returns everything, the plain calls panic
resultOfFault(call, kind) ==
  IF call = "FlushWithFullCheck" THEN "error"
  ELSE IF call \in {"FlushWithCheck", "FlushInTransactionWithCheck"}
       THEN (IF kind \in {"fk", "dup"} THEN "error" ELSE "panic")
       ELSE "panic"

\* variant of recoverClears in which flushWithCheck recovers without Clear
recoverClearsFullCheckOnly(call) == call = "FlushWithFullCheck"

\* the recover() handlers of flushWithCheck and FlushWithFullCheck call Clear
recoverClears(call) ==
  call \in {"FlushWithCheck", "FlushInTransactionWithCheck", "FlushWithFullCheck"}

\* engine.afterCommit* dropped by a Rollback
Discarded == [afterCommitLocalCacheSets |-> <<>>, afterCommitRedisFlusher |-> FALSE]

\* a panic of kind `kind` leaves the flush body; tbl / inTx are the tables
\* and transaction flags at that moment, injected tells a driver fault of
\* the environment from an error the database state forces, forcedRollback
\* that the forced transaction of the update loop was rolled back
Raise(kind, registered, tbl, inTx, injected, forcedRollback) ==
  LET g == fr.owner
      call == gs[g].call
      rb == RolledBack(registered, inTx)
  IN /\ faults' = IF injected THEN faults + 1 ELSE faults
     /\ table' = [s \in Schemas |-> IF mysqlPoolName(s) \in rb
                                    THEN txSnap[mysqlPoolName(s)] ELSE tbl[s]]
     /\ inTransaction' = [p \in Pools |-> inTx[p] /\ p \notin rb]
     /\ engine' = IF rb # {} \/ forcedRollback THEN Discarded ELSE engine
     /\ mutex' = "free"
     /\ f' = IF recoverClears(call) THEN ClearFlusher(f) ELSE f
     /\ gs' = [gs EXCEPT ![g] = [pc |-> "returned", call |-> call,
                                 res |-> resultOfFault(call, kind), err |-> kind,
                                 concurrent |-> gs[g].concurrent]]
     /\ fr' = NoFrame
     /\ glog' = [glog EXCEPT ![g] = @ \o [j \in 1..Cardinality(rb) |->
                                          Ev("rollback", SetToSeq(rb)[j], NoKey)]]
     /\ UNCHANGED <<ent, autoNext, txSnap, localCache, redisCache, lazyChannel, rf, snap, calls>>

CanFault == faults < MaxFaults

\* db.Begin() of one pool of dbPools (Go iterates the map in any order); a
\* failing Begin panics before the deferred Rollback loop is registered
Begin(g) ==
  /\ gs[g].pc = "body" /\ fr.owner = g /\ fr.pc = "begin"
  /\ \E p \in fr.left :
       \/ /\ inTransaction' = [inTransaction EXCEPT ![p] = TRUE]
          /\ txSnap' = IF inTransaction[p] THEN txSnap
                       ELSE [txSnap EXCEPT ![p] = table[SchemaOfPool(p)]]
          /\ glog' = [glog EXCEPT ![g] = Append(@, Ev("begin", p, NoKey))]
          /\ fr' = IF fr.left = {p} THEN AfterBegin([fr EXCEPT !.left = {}], f)
                    ELSE [fr EXCEPT !.left = @ \ {p}]
          /\ UNCHANGED <<ent, table, autoNext, localCache, redisCache, lazyChannel,
                         f, rf, engine, mutex, gs, snap, faults, calls>>
       \/ /\ CanFault
          /\ Raise("other", FALSE, table, inTransaction, TRUE, FALSE)
  /\ UNCHANGED <<sideVars, editVars, bgVars>>

----------------------------------------------------------------------------
(* Buffers of the flusher.  B is the pair [f, rf]: the flusher and the     *)
(* redisFlusher object it points to.                                       *)

addLocalCacheSet(fl, key, value) ==
  [fl EXCEPT !.localCacheSets = Append(@, [key |-> key, value |-> value])]

addLocalCacheDeletes(fl, keys) ==
  [fl EXCEPT !.localCacheDeletes = @ \o keys]

getRedisFlusher(fl) == [fl EXCEPT !.redisFlusher = TRUE]

\* redisFlusher.Del
Del(r, keys) == [r EXCEPT !.deletes = @ \o keys]

\* lines 954-956: a tracked field of the index is a key of the bind
trackedAll(definition, bind) ==
  /\ definition.TrackedFields # <<>>
  /\ \A i \in 1..Len(definition.TrackedFields) : definition.TrackedFields[i] \in bind
trackedInBind(definition, bind) ==
  \E i \in 1..Len(definition.TrackedFields) : definition.TrackedFields[i] \in bind

\* lines 957-963: the values of the query fields in data, FakeDelete left out
RECURSIVE attributes(_, _, _)
attributes(s, QueryFields, data) ==
  IF QueryFields = <<>> THEN <<>>
  ELSE (IF ~hasFakeDelete(s) \/ QueryFields[1] # "FakeDelete"
        THEN <<data[QueryFields[1]]>> ELSE <<>>)
       \o attributes(s, Tail(QueryFields), data)

\* getCacheQueriesKeys: bind is the set of the columns of the bind, data the
\* row; the indexes are visited in the order of a map iteration
RECURSIVE queriesKeys(_, _, _, _, _)
queriesKeys(s, definitions, bind, data, addedDeleted) ==
  IF definitions = <<>> THEN <<>>
  ELSE LET definition == definitions[1]
       IN (IF addedDeleted /\ definition.TrackedFields = <<>>
           THEN <<getCacheKeySearch(s, definition.name)>> ELSE <<>>)
          \o (IF trackedInBind(definition, bind)
              THEN <<getCacheKeySearchOf(s, definition.name,
                                         attributes(s, definition.QueryFields, data))>>
              ELSE <<>>)
          \o queriesKeys(s, Tail(definitions), bind, data, addedDeleted)

getCacheQueriesKeys(s, bind, data, addedDeleted) ==
  queriesKeys(s, SetToSeq(cachedIndexesAll(s)), bind, data,
              IF ~addedDeleted /\ hasFakeDelete(s) THEN "FakeDelete" \in bind
              ELSE addedDeleted)

updateCacheForInserted(B, s, id, dbData, lazy) ==
  LET keys == getCacheQueriesKeys(s, {"Name"}, dbData, TRUE)
      f1 == IF GetLocalCache(s)
            THEN addLocalCacheDeletes(
                   IF ~lazy
                   THEN addLocalCacheSet(B.f, getCacheKey(s, id), buildLocalCacheValue(dbData))
                   ELSE addLocalCacheDeletes(B.f, <<getCacheKey(s, id)>>),
                   keys)
            ELSE B.f
  IN IF GetRedisCache(s)
     THEN [f |-> getRedisFlusher(f1), rf |-> Del(Del(B.rf, <<getCacheKey(s, id)>>), keys)]
     ELSE [f |-> f1, rf |-> B.rf]

\* the cache part of updateCacheAfterUpdate; old is the copy of the row
\* taken before injectBind, dbData the row after it (the slice injectBind
\* writes into), bind the columns of the bind
updateCacheAfterUpdate(B, s, currentID, old, dbData, bind) ==
  LET keys == getCacheQueriesKeys(s, bind, dbData, FALSE)
      keysOld == getCacheQueriesKeys(s, bind, old, FALSE)
      f1 == IF GetLocalCache(s)
            THEN addLocalCacheDeletes(
                   addLocalCacheDeletes(
                     addLocalCacheSet(B.f, getCacheKey(s, currentID), buildLocalCacheValue(dbData)),
                     keys), keysOld)
            ELSE B.f
  IN IF GetRedisCache(s)
     THEN [f |-> getRedisFlusher(f1),
           rf |-> Del(Del(Del(B.rf, <<getCacheKey(s, currentID)>>), keys), keysOld)]
     ELSE [f |-> f1, rf |-> B.rf]

\* the cache part of the delete loop of flush for one deleted id
updateCacheForDeleted(B, s, id) ==
  LET keys == getCacheQueriesKeys(s, {"Name"}, [ID |-> id], TRUE)
      f1 == IF GetLocalCache(s)
            THEN addLocalCacheDeletes(addLocalCacheSet(B.f, getCacheKey(s, id), cacheNilValue), keys)
            ELSE B.f
  IN IF GetRedisCache(s)
     THEN [f |-> getRedisFlusher(f1), rf |-> Del(Del(B.rf, <<getCacheKey(s, id)>>), keys)]
     ELSE [f |-> f1, rf |-> B.rf]

\* keys of the bind of an INSERT (ID is sent when the entity has one), and
\* of an UPDATE of the value column / of convertDBDataToMap for a DELETE
insertBind(id) == IF id > 0 THEN {"ID", "Name"} ELSE {"Name"}
valueBind == {"Name"}

\* the inner loop of addDirtyQueues: the first column that is "ORM" or a
\* key of the bind ends it
RECURSIVE isDirtyStream(_, _)
isDirtyStream(columns, bind) ==
  IF columns = <<>> THEN FALSE
  ELSE IF columns[1] = "ORM" \/ columns[1] \in bind THEN TRUE
  ELSE isDirtyStream(Tail(columns), bind)

\* addDirtyQueues: the streams that get the event
RECURSIVE addDirtyQueues(_, _)
addDirtyQueues(fields, bind) ==
  IF fields = <<>> THEN <<>>
  ELSE (IF isDirtyStream(fields[1].columns, bind) THEN <<fields[1].stream>> ELSE <<>>)
       \o addDirtyQueues(Tail(fields), bind)

\* addToLogQueue and addDirtyQueues of a flush that is not lazy: the log
\* value and one dirty event per stream are queued in the redis flusher
publishEvents(B, s, id, bind, action, logFirst) ==
  LET hit == addDirtyQueues(dirtyFields(s), bind)
      dirty == [j \in 1..Len(hit) |-> [stream |-> hit[j], ev |-> Event(s, id, action)]]
      log == IF hasLog(s) THEN <<[stream |-> logChannelName, ev |-> Event(s, id, "log")]>>
             ELSE <<>>
      evs == IF logFirst THEN log \o dirty ELSE dirty \o log
  IN IF evs = <<>> THEN B
     ELSE [f |-> getRedisFlusher(B.f), rf |-> [B.rf EXCEPT !.events = @ \o evs]]

\* the publishes of a list of dirtyQueueValue: one per stream of each value
RECURSIVE dirtyPublishes(_)
dirtyPublishes(d) ==
  IF d = <<>> THEN <<>>
  ELSE [j \in 1..Len(d[1].Streams) |-> [stream |-> d[1].Streams[j], ev |-> d[1].Event]]
       \o dirtyPublishes(Tail(d))

\* ghost: the events a step has queued in the redis flusher, and the bind
\* of a written entity of a schema with dirty streams
emitted(before, after) ==
  [j \in 1..(Len(after) - Len(before)) |->
     LET x == after[Len(before) + j] IN Ev("emit", x.stream, <<x.ev.E, x.ev.A, x.ev.I>>)]
bindTag(bind) == IF "ID" \in bind THEN "ID,Name" ELSE "Name"
bound(s, bind, action, id) ==
  IF dirtyFields(s) = <<>> THEN <<>> ELSE <<Ev("bind", bindTag(bind), <<s, action, id>>)>>

\* the same two calls in a lazy flush: what they return to the caller
logEvents(s, id) == IF hasLog(s) THEN <<[ID |-> id, s |-> s]>> ELSE <<>>
dirtyEvents(s, id, bind, action) ==
  LET hit == addDirtyQueues(dirtyFields(s), bind)
  IN IF hit = <<>> THEN <<>> ELSE <<[Event |-> Event(s, id, action), Streams |-> hit]>>

SQL(op, s, hasID, rows, id, name, ids) ==
  [op |-> op, s |-> s, hasID |-> hasID, rows |-> rows, ID |-> id, Name |-> name, ids |-> ids]

fillLazyQuery(fl, sql, logEvent, dirtyData) ==
  [fl EXCEPT !.lazyMap.made = TRUE, !.lazyMap.q = Append(@, sql),
             !.lazyMap.l = IF Len(logEvent) > 0 THEN logEvent ELSE @,
             !.lazyMap.d = IF Len(dirtyData) > 0 THEN dirtyData ELSE @]

----------------------------------------------------------------------------
(* The body of flush(root = true, ...) *)

InBody(g, pc) == gs[g].pc = "body" /\ fr.owner = g /\ fr.pc = pc

\* lines 585-597: injectBind, id assignment and updateCacheForInserted for
\* the rows of one batch, in order; id is the running value of
\* LastInsertId + k * autoincrement
RECURSIVE assignInserted(_, _, _, _, _, _)
assignInserted(rows, id, a, s, E, B) ==
  IF rows = <<>> THEN [ent |-> E, B |-> B]
  ELSE LET r == rows[1]
           zero == E[r.e].ID = 0
           e1 == [E[r.e] EXCEPT !.dBData.Name = r.Name,
                                !.dBData.ID = IF r.ID > 0 THEN r.ID ELSE @,
                                !.inDB = TRUE]
           e2 == IF zero THEN [e1 EXCEPT !.ID = id, !.dBData.ID = id] ELSE e1
       IN assignInserted(Tail(rows), IF zero THEN id + a ELSE id, a, s,
                         [E EXCEPT ![r.e] = e2],
                         publishEvents(updateCacheForInserted(B, s, e2.ID, e2.dBData, FALSE),
                                       s, e2.ID, insertBind(r.ID), "i", TRUE))

\* lines 572-580: updateCacheForInserted(entity, lazy, 0, bind) per row
RECURSIVE lazyInserted(_, _, _, _)
lazyInserted(rows, s, E, B) ==
  IF rows = <<>> THEN B
  ELSE lazyInserted(Tail(rows), s, E,
                    updateCacheForInserted(B, s, 0, E[rows[1].e].dBData, TRUE))

SqlRows(rows) == [j \in 1..Len(rows) |-> [ID |-> rows[j].ID, Name |-> rows[j].Name]]

InsertFaults == {"dup", "fk", "other"}

\* whether the referenced entity of e is stored when e is written
refMark(e, E, tbl) ==
  IF refOne(e) = NoRef THEN ""
  ELSE IF E[refOne(e)].ID > 0 /\ tbl[tableSchema(refOne(e))][E[refOne(e)].ID] # NoRow
       THEN "saved" ELSE "unsaved"

\* ghost: a statement written for the entity (s, id), logged in the calls
\* that start with an unsaved reference
wrote(frame, op, s, mark, id) ==
  IF frame.nested THEN <<Ev("write", op, <<s, mark, id>>)>> ELSE <<>>

\* the two panics of a lazy flush: an OnDuplicateKeyUpdate clause on a new
\* entity, and unsaved references after the loop
unsupportedLazyOnDuplicateOnly(lazy, kind, last, refs) == lazy /\ kind = "upsert"
unsupportedLazy(lazy, kind, last, refs) ==
  lazy /\ (kind = "upsert" \/ (last /\ refs # {}))

\* the orders in which Go may iterate a map with the keys S
Orders(S) ==
  {q \in [1..Cardinality(S) -> S] : \A a, b \in 1..Cardinality(S) : a # b => q[a] # q[b]}

\* entry of a nested flush(root, false, transaction, entities...); the maps
\* of pending inserts are locals of the call
NestedFlush(frame, entities, root, rest) ==
  [frame EXCEPT !.pc = "classify", !.i = 1, !.entities = entities, !.root = root,
                !.lazy = FALSE,
                !.referencesToFlash = {}, !.rest = rest, !.left = {},
                !.insertKeys = NoFrame.insertKeys, !.insertRows = NoFrame.insertRows]

\* one iteration of the classification loop of flush, and for the last
\* entity what follows the loop when references are to be flushed first:
\* flush(false, ...) of the references, the entities that are not
\* references wait for their flush(true, ...)
Classify(g) ==
  /\ InBody(g, "classify")
  /\ LET e == fr.entities[fr.i]
         en == ent[e]
         s == tableSchema(e)
         p == mysqlPoolName(s)
         tx1 == fr.tx \/ inTransaction[p]
         B0 == [f |-> f, rf |-> rf]
         last == fr.i = Len(fr.entities)
         refs == IF refOne(e) # NoRef /\ ent[refOne(e)].ID = 0
                 THEN fr.referencesToFlash \cup {refOne(e)} ELSE fr.referencesToFlash
         kind == IF refs # {} THEN "skip"
                 ELSE IF ~isDirty(en) THEN "clean"
                 ELSE IF en.delete THEN "delete"
                 ELSE IF ~en.inDB
                      THEN (IF onDuplicateKeyUpdate(e) THEN "upsert" ELSE "insert")
                      ELSE "update"
         sql == SQL("UPDATE", s, FALSE, <<>>, en.ID, en.Name, {})
         enU == [en EXCEPT !.dBData.Name = en.Name, !.inDB = TRUE]
         BC == updateCacheAfterUpdate(B0, s, en.ID, en.dBData, enU.dBData, valueBind)
         BU == IF fr.lazy THEN BC ELSE publishEvents(BC, s, en.ID, valueBind, "u", FALSE)
         row == <<[e |-> e, ID |-> en.ID, Name |-> en.Name]>>
         res == ExecInsert(table[s], autoNext[s], getAutoincrement(p), en.ID > 0, SqlRows(row), 0)
         UP == assignInserted(row, res.lastID, getAutoincrement(p), s, ent, B0)
         B1 == CASE kind = "delete" ->
                      [B0 EXCEPT !.f.deleteBinds[s] =
                         {d \in @ : d.id # en.ID} \cup {[id |-> en.ID, e |-> e]}]
                 [] kind = "update" ->
                      IF fr.lazy
                      THEN [BU EXCEPT !.f = fillLazyQuery(@, sql, logEvents(s, en.ID),
                                                          dirtyEvents(s, en.ID, valueBind, "u"))]
                      ELSE [BU EXCEPT !.f.updateSQLs[p] = Append(@, sql)]
                 [] kind = "upsert" -> UP.B
                 [] OTHER -> B0
         fr1 == [fr EXCEPT !.tx = tx1, !.i = @ + 1, !.referencesToFlash = refs,
                           !.insertKeys[s] = IF kind = "insert" /\ @ = "unset"
                                             THEN (IF en.ID > 0 THEN "id" ELSE "noid")
                                             ELSE @,
                           !.insertRows[s] = IF kind = "insert"
                                             THEN Append(@, row[1])
                                             ELSE @]
         rest == SelectSeq(fr.entities, LAMBDA x : x \notin refs)
     IN IF unsupportedLazy(fr.lazy, kind, last, refs)
        THEN Raise("other", TRUE, table, inTransaction, FALSE, FALSE)
        ELSE /\ kind = "upsert" => res.ok
             /\ ent' = IF kind = "update" THEN [ent EXCEPT ![e] = enU]
                       ELSE IF kind = "upsert" THEN UP.ent ELSE ent
             /\ table' = IF kind = "upsert" THEN [table EXCEPT ![s] = res.table] ELSE table
             /\ autoNext' = IF kind = "upsert" THEN [autoNext EXCEPT ![s] = res.next] ELSE autoNext
             /\ f' = B1.f
             /\ rf' = B1.rf
             /\ (last /\ refs # {}) => Len(fr.rest) < MaxDepth
             /\ \E toFlush \in (IF last /\ refs # {} THEN Orders(refs) ELSE {<<>>}) :
                  fr' = IF ~last THEN fr1
                        ELSE IF refs # {}
                        THEN NestedFlush(fr1, toFlush, FALSE, <<rest>> \o fr.rest)
                        ELSE NextPhase(fr1, B1.f, "insert")
             /\ glog' = [glog EXCEPT ![g] = @ \o
                           (IF kind = "update"
                            THEN bound(s, valueBind, "u", en.ID) \o emitted(rf.events, B1.rf.events)
                            ELSE IF kind = "upsert"
                            THEN <<Ev("exec", "INSERT", <<s, "", res.lastID>>)>>
                                 \o wrote(fr, "INSERT", s, refMark(e, ent, table), res.lastID)
                            ELSE <<>>)]
             /\ UNCHANGED <<inTransaction, txSnap, localCache, redisCache,
                            lazyChannel, engine, mutex, gs, snap, faults, calls>>
  /\ UNCHANGED <<sideVars, editVars, bgVars>>

\* the batch INSERT of one type (Go iterates insertKeys in any order)
Insert(g) ==
  /\ InBody(g, "insert")
  /\ \E s \in fr.left :
       LET p == mysqlPoolName(s)
           rows == fr.insertRows[s]
           hasID == fr.insertKeys[s] = "id"
           sql == SQL("INSERT", s, hasID, SqlRows(rows), 0, Null, {})
           res == ExecInsert(table[s], autoNext[s], getAutoincrement(p), hasID, SqlRows(rows), 0)
           B0 == [f |-> f, rf |-> rf]
           fr0 == [fr EXCEPT !.left = @ \ {s}]
           fr1 == IF fr.lazy THEN fr0
                  ELSE [fr0 EXCEPT !.inserted = @ \cup {s}, !.lastInsertId[s] = res.lastID]
       IN IF fr.lazy
          THEN LET B1 == lazyInserted(rows, s, ent, B0)
                   lg == [j \in 1..(IF hasLog(s) THEN Len(rows) ELSE 0) |-> logEvents(s, 0)[1]]
                   hits == {j \in 1..Len(rows) :
                              dirtyEvents(s, 0, insertBind(rows[j].ID), "i") # <<>>}
                   dd == [j \in 1..Cardinality(hits) |->
                            dirtyEvents(s, 0, insertBind(
                              rows[CHOOSE m \in hits : Cardinality({n \in hits : n < m}) = j - 1].ID),
                              "i")[1]]
                   fl == fillLazyQuery(B1.f, sql, lg, dd)
               IN /\ f' = fl
                  /\ rf' = B1.rf
                  /\ fr' = IF fr1.left = {} THEN NextPhase(fr1, fl, "update") ELSE fr1
                  /\ glog' = [glog EXCEPT ![g] = @ \o
                                (IF dirtyFields(s) = <<>> THEN <<>>
                                 ELSE [j \in 1..Len(rows) |->
                                         bound(s, insertBind(rows[j].ID), "i", 0)[1]])]
                  /\ UNCHANGED <<ent, table, autoNext, inTransaction, txSnap, localCache,
                                 redisCache, lazyChannel, engine, mutex, gs, snap, faults, calls>>
          ELSE \/ /\ res.ok
                  /\ LET R == assignInserted(rows, res.lastID, getAutoincrement(p), s, ent, B0)
                     IN /\ ent' = R.ent
                        /\ f' = R.B.f
                        /\ rf' = R.B.rf
                        /\ fr' = IF fr1.left = {} THEN NextPhase(fr1, R.B.f, "update") ELSE fr1
                  /\ table' = [table EXCEPT ![s] = res.table]
                  /\ autoNext' = [autoNext EXCEPT ![s] = res.next]
                  /\ glog' = [glog EXCEPT ![g] =
                       Append(@, Ev("exec", "INSERT", <<s, "", res.lastID>>))
                       \o (IF dirtyFields(s) = <<>> THEN <<>>
                           ELSE [j \in 1..Len(rows) |->
                                   bound(s, insertBind(rows[j].ID), "i",
                                         assignInserted(rows, res.lastID, getAutoincrement(p),
                                                        s, ent, B0).ent[rows[j].e].ID)[1]])
                       \o emitted(rf.events, assignInserted(rows, res.lastID, getAutoincrement(p),
                                                            s, ent, B0).B.rf.events)
                       \o (IF ~fr.nested THEN <<>>
                           ELSE [j \in 1..Len(rows) |->
                                   wrote(fr, "INSERT", s, refMark(rows[j].e, ent, table),
                                         assignInserted(rows, res.lastID, getAutoincrement(p),
                                                        s, ent, B0).ent[rows[j].e].ID)[1]])]
                  /\ UNCHANGED <<inTransaction, txSnap, localCache, redisCache, lazyChannel,
                                 engine, mutex, gs, snap, faults, calls>>
               \/ /\ res.dup
                  /\ Raise("dup", TRUE, table, inTransaction, FALSE, FALSE)
               \/ /\ res.ok
                  /\ CanFault
                  /\ \E k \in InsertFaults : Raise(k, TRUE, table, inTransaction, TRUE, FALSE)
  /\ UNCHANGED <<sideVars, editVars, bgVars>>

\* redisFlusher.Flush: the queued deletes reach the remote cache, the
\* queued envelopes the stream, and the pipelines are emptied
EmptyRF == [deletes |-> <<>>, publishes |-> <<>>, events |-> <<>>]

\* XADD of the queued events, in order, each to its stream
RECURSIVE Published(_, _)
Published(st, events) ==
  IF events = <<>> THEN st
  ELSE Published([st EXCEPT ![events[1].stream] = Append(@, events[1].ev)], Tail(events))

FlushRedis(rc, ch, st, r) ==
  [redisCache |-> RemoveKeys(rc, r.deletes), lazyChannel |-> ch \o r.publishes,
   streams |-> Published(st, r.events), rf |-> EmptyRF]

KeyEvents(ev, keys) == [j \in 1..Len(keys) |-> Ev(ev, "", keys[j])]
SetEvents(pairs) == [j \in 1..Len(pairs) |-> Ev("lset", "", pairs[j].key)]

\* DB.Commit after the driver committed: on the outermost commit the parked
\* local-cache sets and remote-cache operations are applied
AfterCommit(inTx, lc, rc, ch, st, r, eng) ==
  IF \A p \in Pools : ~inTx[p]
  THEN LET R == IF eng.afterCommitRedisFlusher THEN FlushRedis(rc, ch, st, r)
                ELSE [redisCache |-> rc, lazyChannel |-> ch, streams |-> st, rf |-> r]
       IN [localCache |-> MSet(lc, eng.afterCommitLocalCacheSets),
           redisCache |-> R.redisCache, lazyChannel |-> R.lazyChannel,
           streams |-> R.streams, rf |-> R.rf,
           engine |-> Discarded,
           events |-> SetEvents(eng.afterCommitLocalCacheSets)
                      \o (IF eng.afterCommitRedisFlusher THEN KeyEvents("rdel", r.deletes) ELSE <<>>)]
  ELSE [localCache |-> lc, redisCache |-> rc, lazyChannel |-> ch, streams |-> st, rf |-> r,
        engine |-> eng, events |-> <<>>]

RECURSIVE ExecUpdates(_, _)
ExecUpdates(tbl, queries) ==
  IF queries = <<>> THEN tbl
  ELSE ExecUpdates([tbl EXCEPT ![queries[1].s] = ExecUpdate(@, queries[1].ID, queries[1].Name)],
                   Tail(queries))

UpdateFaults == {"dup", "fk", "other"}

\* line 608: the update loop opens a transaction of its own around three or
\* more statements of a pool that is in none
forcedTransactionNested(l, inTx) == l >= 3
forcedTransaction(l, inTx) == l >= 3 /\ ~inTx

\* lines 610-612: db.Begin() and the deferred db.Rollback() of the forced
\* transaction, which runs when the query panics
rollbackForced(inTx, p, forced) == [inTx EXCEPT ![p] = IF forced THEN FALSE ELSE @]

\* lines 601-620: the pending UPDATE statements of one pool
Update(g) ==
  /\ InBody(g, "update")
  /\ \E p \in fr.left :
       LET queries == f.updateSQLs[p]
           l == Len(queries)
           forced == forcedTransaction(l, inTransaction[p])
           fr1 == [fr EXCEPT !.left = @ \ {p}]
           AC == IF forced
                 THEN AfterCommit(inTransaction, localCache, redisCache, lazyChannel, streams,
                                  rf, engine)
                 ELSE [localCache |-> localCache, redisCache |-> redisCache,
                       lazyChannel |-> lazyChannel, streams |-> streams, rf |-> rf,
                       engine |-> engine, events |-> <<>>]
       IN \/ /\ table' = ExecUpdates(table, queries)
             /\ streams' = AC.streams
             /\ glog' = [glog EXCEPT ![g] = @
                           \o (IF forced THEN <<Ev("begin", p, NoKey)>> ELSE <<>>)
                           \o <<Ev("exec", "UPDATE", <<SchemaOfPool(p), "", l>>)>>
                           \o (IF ~fr.nested THEN <<>>
                               ELSE [j \in 1..l |->
                                       wrote(fr, "UPDATE", queries[j].s, "", queries[j].ID)[1]])
                           \o (IF forced THEN <<Ev("commit", p, NoKey)>> ELSE <<>>)
                           \o AC.events]
             /\ localCache' = AC.localCache
             /\ redisCache' = AC.redisCache
             /\ lazyChannel' = AC.lazyChannel
             /\ rf' = AC.rf
             /\ engine' = AC.engine
             /\ fr' = IF fr1.left = {} THEN NextPhase(fr1, f, "delete") ELSE fr1
             /\ UNCHANGED <<ent, autoNext, inTransaction, txSnap, f, mutex, gs, snap, faults, calls>>
          \/ /\ CanFault
             /\ \E kind \in UpdateFaults :
                  \E k \in (IF l >= 2 /\ ~forced THEN 0..(l - 1) ELSE {0}) :
                    /\ Raise(kind, TRUE, ExecUpdates(table, SubSeq(queries, 1, k)),
                             rollbackForced([inTransaction EXCEPT ![p] = forced \/ @],
                                            p, forced),
                             TRUE, forced)
                    /\ UNCHANGED streams
  /\ UNCHANGED <<sideVars, editVars, logTable, bgLast, indices, lastIDKeys, indexing>>

RECURSIVE deletedCache(_, _, _, _)
deletedCache(ids, s, B, lazy) ==
  IF ids = {} THEN B
  ELSE LET id == CHOOSE x \in ids : \A y \in ids : x <= y
           B1 == IF lazy THEN B ELSE publishEvents(B, s, id, valueBind, "d", FALSE)
       IN deletedCache(ids \ {id}, s, updateCacheForDeleted(B1, s, id), lazy)

DeleteFaults == {"fk", "other"}

\* f.engine.Search(where, pager, sub) of the cascade loop: the stored rows
\* of refSchema whose reference column holds one of ids, and the first page
\* of them
Referencing(refSchema, s, ids, E, tbl) ==
  {c \in AllEntities : /\ tableSchema(c) = refSchema
                        /\ refOne(c) # NoRef
                        /\ tableSchema(refOne(c)) = s
                        /\ E[refOne(c)].ID \in ids
                        /\ E[c].ID \in 1..MaxID
                        /\ tbl[refSchema][E[c].ID] # NoRow}
FirstPage(found, E) ==
  {c \in found : Cardinality({d \in found : E[d].ID < E[c].ID}) < PageSize}
\* the entities of a page in the order of their ids
RECURSIVE ByID(_, _)
ByID(page, E) ==
  IF page = {} THEN <<>>
  ELSE LET c == CHOOSE x \in page : \A y \in page : E[x].ID <= E[y].ID
       IN <<c>> \o ByID(page \ {c}, E)

\* the arguments the cascade loop passes for the parameters lazy and
\* transaction of flush(root, lazy, transaction, entities...)
cascadeLazy(lazy, transaction) == transaction
cascadeTransaction(lazy, transaction) == lazy

\* f.flush(true, transaction, lazy, toDeleteAll...) in the cascade loop of
\* the type `s`: the caller waits on the stack
CascadeFlush(frame, s, page, E) ==
  [frame EXCEPT !.pc = "classify", !.i = 1, !.entities = ByID(page, E), !.root = TRUE,
                !.lazy = cascadeLazy(frame.lazy, frame.tx),
                !.tx = cascadeTransaction(frame.lazy, frame.tx),
                !.referencesToFlash = {}, !.rest = <<>>, !.left = {},
                !.insertKeys = NoFrame.insertKeys, !.insertRows = NoFrame.insertRows,
                !.types = {}, !.cur = "", !.page = {}, !.pages = @ + 1,
                !.stack = <<[frame EXCEPT !.stack = <<>>, !.cur = s,
                                          !.page = {E[c].ID : c \in page}]>> \o @]

\* return of that call into the loop of the caller; types that entered
\* f.deleteBinds meanwhile may or may not be produced by its range
CascadeReturn(frame, fl, more) ==
  [frame.stack[1] EXCEPT !.stack = Tail(frame.stack), !.pages = frame.pages,
                         !.left = @ \cup more,
                         !.types = @ \cup DeleteTypes(fl)]

\* lines 621-710: the DELETE statement of one type and its cache operations
DeleteExec(g) ==
  /\ InBody(g, "delete")
  /\ \E s \in (IF fr.cur # "" THEN {fr.cur} ELSE fr.left) :
       LET ids == {d.id : d \in f.deleteBinds[s]}
           sql == SQL("DELETE", s, FALSE, <<>>, 0, Null, ids)
           idSeq == SetToSeq(ids)
           lg == [j \in 1..(IF hasLog(s) THEN Len(idSeq) ELSE 0) |-> logEvents(s, idSeq[j])[1]]
           dd == [j \in 1..(IF dirtyEvents(s, 0, valueBind, "d") # <<>> THEN Len(idSeq) ELSE 0) |->
                    dirtyEvents(s, idSeq[j], valueBind, "d")[1]]
           B0 == [f |-> IF fr.lazy THEN fillLazyQuery(f, sql, lg, dd) ELSE f, rf |-> rf]
           B1 == deletedCache(ids, s, B0, fr.lazy)
           fr1 == [fr EXCEPT !.left = @ \ {s}, !.cur = "", !.page = {}]
           cascades == {r \in GetUsage(s) :
                          /\ ~fr.lazy /\ isCascade(r)
                          /\ Referencing(r, s, ids, ent, table) # {}}
       IN IF cascades # {}
          THEN \E r \in cascades :
                 LET page == FirstPage(Referencing(r, s, ids, ent, table), ent)
                 IN /\ fr.pages < MaxPages
                    /\ ent' = [c \in AllEntities |->
                                 IF c \in page THEN [ent[c] EXCEPT !.delete = TRUE] ELSE ent[c]]
                    /\ fr' = CascadeFlush(fr, s, page, ent)
                    /\ glog' = [glog EXCEPT ![g] =
                                  Append(@, Ev("cascade", r, <<s, "", Cardinality(page)>>))]
                    /\ UNCHANGED <<table, f, rf, autoNext, inTransaction, txSnap, localCache,
                                   redisCache, lazyChannel, engine, mutex, gs, snap, faults,
                                   calls>>
          ELSE
          \/ /\ table' = IF fr.lazy THEN table ELSE [table EXCEPT ![s] = ExecDelete(@, ids)]
             /\ glog' = [glog EXCEPT ![g] =
                                (IF fr.lazy THEN @
                                 ELSE Append(@, Ev("exec", "DELETE", <<s, "", 0>>)))
                                \o (IF dirtyFields(s) = <<>> THEN <<>>
                                    ELSE [j \in 1..Len(idSeq) |->
                                            bound(s, valueBind, "d", idSeq[j])[1]])
                                \o emitted(rf.events, B1.rf.events)
                                \o (IF fr.lazy \/ ~fr.nested THEN <<>>
                                    ELSE [j \in 1..Len(idSeq) |->
                                            wrote(fr, "DELETE", s, "", idSeq[j])[1]])]
             /\ f' = B1.f
             /\ rf' = B1.rf
             /\ fr' = IF fr1.left = {} THEN NextPhase(fr1, B1.f, "finish") ELSE fr1
             /\ UNCHANGED <<ent, autoNext, inTransaction, txSnap, localCache, redisCache,
                            lazyChannel, engine, mutex, gs, snap, faults, calls>>
          \/ /\ ~fr.lazy
             /\ CanFault
             /\ \E kind \in DeleteFaults : Raise(kind, TRUE, table, inTransaction, TRUE, FALSE)
  /\ UNCHANGED <<sideVars, editVars, bgVars>>

NoLazyMap == [made |-> FALSE, q |-> <<>>, cl |-> <<>>, cr |-> <<>>, l |-> <<>>, d |-> <<>>]

\* whether the local-cache sets of a flush are applied at once (line 723)
appliesSetsNow(tx) == ~tx

\* whether the local-cache deletes of a flush are removed at once
\* (lines 711-720: only a lazy flush defers them, into the envelope)
removesNow(lazy, tx) == ~lazy

\* end of flushTrackedEntities when nothing faulted: f.clear(), the deferred
\* Rollback loop finds no pool in a transaction, the mutex is released
Return(g, fl) ==
  /\ f' = clear(fl)
  /\ gs' = [gs EXCEPT ![g] = [pc |-> "returned", call |-> gs[g].call, res |-> "nil",
                              err |-> "", concurrent |-> gs[g].concurrent]]
  /\ mutex' = "free"
  /\ fr' = NoFrame

\* lines 711-754: the cache operations at the root of flush and the end of
\* every flush; a flush of references is followed by the flush(true, ...)
\* of the entities that waited for it, whose caller returns at once
Finish(g) ==
  /\ InBody(g, "finish")
  /\ LET lazy == fr.lazy
         tx == fr.tx
         root == fr.root
         hasDel == root /\ f.localCacheDeletes # <<>>
         lm1 == IF hasDel /\ ~removesNow(lazy, tx)
                THEN [f.lazyMap EXCEPT !.made = TRUE, !.cl = f.localCacheDeletes]
                ELSE f.lazyMap
         lc1 == IF hasDel /\ removesNow(lazy, tx)
                THEN RemoveKeys(localCache, f.localCacheDeletes) ELSE localCache
         lc2 == IF root /\ appliesSetsNow(tx) THEN MSet(lc1, f.localCacheSets) ELSE lc1
         eng1 == IF ~root \/ appliesSetsNow(tx) THEN engine
                 ELSE [engine EXCEPT !.afterCommitLocalCacheSets = @ \o f.localCacheSets]
         lm2 == IF lazy
                THEN [lm1 EXCEPT !.made = TRUE,
                                 !.cr = IF rf.deletes # <<>> THEN rf.deletes ELSE @]
                ELSE lm1
         eng2 == IF ~lazy /\ tx THEN [eng1 EXCEPT !.afterCommitRedisFlusher = TRUE] ELSE eng1
         publish == lm2.made
         rf1 == IF publish
                THEN [rf EXCEPT !.publishes =
                        Append(@, [valid |-> TRUE, q |-> lm2.q, cl |-> lm2.cl, cr |-> lm2.cr,
                                   l |-> lm2.l, d |-> lm2.d])]
                ELSE rf
         hasRF == f.redisFlusher \/ lazy \/ tx \/ publish
         flushNow == hasRF /\ ~tx /\ root
         rest == SelectSeq(fr.rest, LAMBDA r : r # <<>>)
         R == IF flushNow THEN FlushRedis(redisCache, lazyChannel, streams, rf1)
              ELSE [redisCache |-> redisCache, lazyChannel |-> lazyChannel,
                    streams |-> streams, rf |-> rf1]
         f1 == [f EXCEPT !.lazyMap = IF publish THEN NoLazyMap ELSE lm2,
                         !.redisFlusher = hasRF]
     IN /\ localCache' = lc2
        /\ engine' = eng2
        /\ redisCache' = R.redisCache
        /\ lazyChannel' = R.lazyChannel
        /\ streams' = R.streams
        /\ rf' = R.rf
        /\ glog' = [glog EXCEPT ![g] = @
                      \o (IF hasDel /\ removesNow(lazy, tx)
                          THEN KeyEvents("lrem", f.localCacheDeletes) ELSE <<>>)
                      \o (IF root /\ appliesSetsNow(tx) THEN SetEvents(f.localCacheSets) ELSE <<>>)
                      \o (IF flushNow THEN KeyEvents("rdel", rf1.deletes) ELSE <<>>)
                      \o (IF flushNow /\ rf1.publishes # <<>>
                          THEN <<Ev("publish", "", NoKey)>> ELSE <<>>)
                      \o (IF publish THEN emitted(<<>>, dirtyPublishes(lm2.d)) ELSE <<>>)]
        /\ IF rest # <<>>
           THEN /\ fr' = NestedFlush(fr, rest[1], TRUE, Tail(rest))
                /\ f' = f1
                /\ UNCHANGED <<gs, mutex, calls>>
           ELSE IF fr.stack # <<>>
           THEN /\ \E more \in SUBSET (DeleteTypes(f1) \ fr.stack[1].types) :
                     fr' = CascadeReturn(fr, f1, more)
                /\ f' = f1
                /\ UNCHANGED <<gs, mutex, calls>>
           ELSE IF fr.transaction
           THEN /\ fr' = [fr EXCEPT !.pc = "commit", !.left = fr.dbPools]
                /\ f' = f1
                /\ UNCHANGED <<gs, mutex, calls>>
           ELSE Return(g, f1)
  /\ UNCHANGED <<ent, table, autoNext, inTransaction, txSnap, snap, faults, calls>>
  /\ UNCHANGED <<sideVars, editVars, logTable, bgLast, indices, lastIDKeys, indexing>>

\* db.Commit() of one pool of dbPools at the end of flushTrackedEntities
Commit(g) ==
  /\ InBody(g, "commit")
  /\ \E p \in fr.left :
       LET did == inTransaction[p]
           inTx1 == [inTransaction EXCEPT ![p] = FALSE]
           AC == IF did
                 THEN AfterCommit(inTx1, localCache, redisCache, lazyChannel, streams, rf, engine)
                 ELSE [localCache |-> localCache, redisCache |-> redisCache,
                       lazyChannel |-> lazyChannel, streams |-> streams, rf |-> rf,
                       engine |-> engine, events |-> <<>>]
       IN \/ /\ inTransaction' = inTx1
             /\ streams' = AC.streams
             /\ localCache' = AC.localCache
             /\ redisCache' = AC.redisCache
             /\ lazyChannel' = AC.lazyChannel
             /\ rf' = AC.rf
             /\ engine' = AC.engine
             /\ glog' = [glog EXCEPT ![g] = @
                           \o (IF did THEN <<Ev("commit", p, NoKey)>> ELSE <<>>) \o AC.events]
             /\ IF fr.left = {p}
                THEN Return(g, f)
                ELSE /\ fr' = [fr EXCEPT !.left = @ \ {p}]
                     /\ UNCHANGED <<f, gs, mutex, calls>>
             /\ UNCHANGED <<ent, table, autoNext, txSnap, snap, faults, calls>>
          \/ /\ did
             /\ CanFault
             /\ Raise("other", TRUE, [table EXCEPT ![SchemaOfPool(p)] = txSnap[p]],
                      inTx1, TRUE, FALSE)
             /\ UNCHANGED streams
  /\ UNCHANGED <<sideVars, editVars, logTable, bgLast, indices, lastIDKeys, indexing>>

----------------------------------------------------------------------------
(* The background consumer: the lazy handler *)

lazyChannelName == "orm-lazy-channel"

\* payloads that Unserialize rejects
BadEnvelope == [valid |-> FALSE, q |-> <<>>, cl |-> <<>>, cr |-> <<>>, l |-> <<>>, d |-> <<>>]
BadEvent == [valid |-> FALSE, E |-> "", I |-> 0, A |-> ""]
\* event.Unserialize returns no error
UnserializeIgnoringErr(event) == TRUE
Unserialize(event) == event.valid

\* the loops of handleQueries that follow an INSERT: every row of "l" takes
\* the running id, then every row of "d" goes on from there
lazyLogIDs(l, id, a) == [j \in 1..Len(l) |-> [l[j] EXCEPT !.ID = id + (j - 1) * a]]
lazyDirtyIDs(d, id, a) == [j \in 1..Len(d) |-> [d[j] EXCEPT !.Event.I = id + (j - 1) * a]]

\* handleQueries, the loop over "q": the statements of the envelope in
\* order, ids[i] the LastInsertId of an INSERT and 0 for the rest
RECURSIVE handleQueries(_, _, _, _, _, _)
handleQueries(qs, tbl, nxt, ids, l, d) ==
  IF qs = <<>>
  THEN [ok |-> TRUE, dup |-> FALSE, table |-> tbl, next |-> nxt, ids |-> ids, l |-> l, d |-> d]
  ELSE LET q == qs[1]
           a == getAutoincrement(mysqlPoolName(q.s))
       IN IF q.op = "INSERT"
          THEN LET r == ExecInsert(tbl[q.s], nxt[q.s], a, q.hasID, q.rows, 0)
               IN IF r.ok
                  THEN handleQueries(Tail(qs), [tbl EXCEPT ![q.s] = r.table],
                                     [nxt EXCEPT ![q.s] = r.next], Append(ids, r.lastID),
                                     lazyLogIDs(l, r.lastID, a),
                                     lazyDirtyIDs(d, r.lastID + Len(l) * a, a))
                  ELSE [ok |-> FALSE, dup |-> r.dup, table |-> tbl, next |-> nxt, ids |-> ids,
                        l |-> l, d |-> d]
          ELSE handleQueries(Tail(qs),
                             [tbl EXCEPT ![q.s] = IF q.op = "UPDATE"
                                                  THEN ExecUpdate(@, q.ID, q.Name)
                                                  ELSE ExecDelete(@, q.ids)],
                             nxt, Append(ids, 0), l, d)

\* handleQueries, the loops that follow: handleLog inserts one row per log
\* value, and every dirty event is published to its streams (dirtyPublishes)
handleLogRows(rows) == [j \in 1..Len(rows) |-> rows[j].ID]

\* handleCache, the "cr" list: a key with a ':' (a row key) advances idKey,
\* and takes ids[idKey] when its last part is "0"; ok is FALSE when idKey
\* runs past the ids (index out of range)
RECURSIVE resolveKeys(_, _, _, _)
resolveKeys(keys, ids, idKey, out) ==
  IF keys = <<>> THEN [ok |-> TRUE, keys |-> out]
  ELSE LET k == keys[1]
       IN IF k[2] # "row" THEN resolveKeys(Tail(keys), ids, idKey, Append(out, k))
          ELSE IF k[3] # 0 THEN resolveKeys(Tail(keys), ids, idKey + 1, Append(out, k))
          ELSE IF idKey + 1 > Len(ids) THEN [ok |-> FALSE, keys |-> out]
          ELSE resolveKeys(Tail(keys), ids, idKey + 1,
                           Append(out, getCacheKey(k[1], ids[idKey + 1])))

\* handleCache: the keys deleted from the remote cache and the keys removed
\* from the local cache (the "cl" list is passed to Remove as it is)
handleCache(env, ids) ==
  LET K == resolveKeys(env.cr, ids, 0, <<>>)
  IN [ok |-> K.ok, cr |-> K.keys, cl |-> env.cl]

Dispatched(stream, outcome, acks) ==
  [stream |-> stream, outcome |-> outcome, acks |-> acks, ops |-> <<>>]

\* what handleLog sends to the pool and the call of the LogLogger, in order
Op(op, id) == [op |-> op, id |-> id]

\* lines 98-100: handleLog opens a transaction when a LogLogger is set
beginsNever(logger) == FALSE
beginsTransaction(logger) == logger

\* handleLog(value): inTx tells whether the pool is in a transaction when it
\* is called, id is the id the INSERT generates, execOK whether the INSERT
\* succeeds and cbOK whether the LogLogger returns.  Begin, Commit and
\* Rollback act only when they change DB.inTransaction; the deferred
\* Rollback runs on return and on panic
handleLog(logger, inTx, id, execOK, cbOK) ==
  LET begun == beginsTransaction(logger) /\ ~inTx
      tx == inTx \/ begun
      begin == IF begun THEN <<Op("begin", 0)>> ELSE <<>>
      rollback == IF tx THEN <<Op("rollback", 0)>> ELSE <<>>
  IN IF ~execOK
     THEN [panics |-> TRUE, persisted |-> FALSE,
           ops |-> begin \o <<Op("exec", 0)>> \o rollback]
     ELSE IF ~logger
     THEN [panics |-> FALSE, persisted |-> ~tx,
           ops |-> begin \o <<Op("exec", id)>> \o rollback]
     ELSE IF ~cbOK
     THEN [panics |-> TRUE, persisted |-> ~tx,
           ops |-> begin \o <<Op("exec", id), Op("logLogger", id)>> \o rollback]
     ELSE [panics |-> FALSE, persisted |-> TRUE,
           ops |-> begin \o <<Op("exec", id), Op("logLogger", id)>>
                   \o (IF tx THEN <<Op("commit", 0)>> ELSE <<>>)]

\* handleLazy for the first event of orm-lazy-channel: an event that cannot
\* be deserialised is acked at once; otherwise the event is acked when
\* handleQueries and handleCache have returned, and stays pending when one
\* of them panics
Consume ==
  /\ Quiet
  /\ indexing.pc = "idle"
  /\ lazyChannel # <<>>
  /\ LET env == lazyChannel[1]
         R == handleQueries(env.q, table, autoNext, <<>>, env.l, env.d)
         K == handleCache(env, R.ids)
     IN IF ~Unserialize(env)
        THEN /\ lazyChannel' = Tail(lazyChannel)
             /\ bgLast' = Dispatched(lazyChannelName, "bad", 1)
             /\ UNCHANGED <<table, autoNext, redisCache, localCache, streams, logTable>>
        ELSE /\ R.ok \/ R.dup
             /\ table' = R.table
             /\ autoNext' = R.next
             /\ logTable' = IF R.ok THEN logTable \o handleLogRows(R.l) ELSE logTable
             /\ streams' = IF R.ok THEN Published(streams, dirtyPublishes(R.d)) ELSE streams
             /\ IF R.ok /\ K.ok
                THEN /\ redisCache' = RemoveKeys(redisCache, K.cr)
                     /\ localCache' = RemoveKeys(localCache, K.cl)
                     /\ lazyChannel' = Tail(lazyChannel)
                     /\ bgLast' = Dispatched(lazyChannelName, "ok", 1)
                ELSE /\ bgLast' = Dispatched(lazyChannelName, "fault", 0)
                     /\ UNCHANGED <<redisCache, localCache, lazyChannel>>
  /\ UNCHANGED <<ent, inTransaction, txSnap, f, rf, engine, mutex, gs, fr, glog, snap, faults, calls>>
  /\ UNCHANGED <<sideVars, editVars, indices, lastIDKeys, indexing>>

----------------------------------------------------------------------------
(* The background consumer: the log channel and the search channel *)

\* engine.registry.redisSearchIndexes holds one index; an event may name an
\* index that is no longer registered
SearchIndex == "idx"
IndexNames == {SearchIndex, "gone"}

\* a producer outside the ORM writes a payload that cannot be deserialised
PublishBad(n) ==
  /\ Quiet
  /\ IF n = lazyChannelName
     THEN /\ Len(lazyChannel) < MaxQueue
          /\ lazyChannel' = Append(lazyChannel, BadEnvelope)
          /\ UNCHANGED streams
     ELSE /\ Len(streams[n]) < MaxQueue
          /\ streams' = [streams EXCEPT ![n] = Append(@, BadEvent)]
          /\ UNCHANGED lazyChannel
  /\ UNCHANGED <<ent, table, autoNext, inTransaction, txSnap, localCache, redisCache, f, rf,
                 engine, mutex, gs, fr, glog, snap, faults, calls>>
  /\ UNCHANGED <<sideVars, editVars, logTable, bgLast, indices, lastIDKeys, indexing>>

\* a new version of a search index is created and its filling is queued
ForceReindex(index) ==
  /\ Quiet
  /\ Len(streams[redisSearchIndexerChannelName]) < MaxQueue
  /\ \E id \in 1..MaxIndexID :
       /\ \A o \in indices : o < id
       /\ indices' = IF index = SearchIndex THEN indices \cup {id} ELSE indices
       /\ streams' = [streams EXCEPT ![redisSearchIndexerChannelName] =
                        Append(@, Event(index, id, "index"))]
  /\ UNCHANGED <<ent, table, autoNext, inTransaction, txSnap, localCache, redisCache,
                 lazyChannel, f, rf, engine, mutex, gs, fr, glog, snap, faults, calls>>
  /\ UNCHANGED <<sideVars, editVars, logTable, bgLast, lastIDKeys, indexing>>

\* what a call on an object that is checked on its own leaves alone
UnchangedByObjects ==
  /\ UNCHANGED <<ent, table, autoNext, inTransaction, txSnap, localCache, redisCache,
                 lazyChannel, f, rf, engine, mutex, gs, fr, glog, snap, faults, calls>>
  /\ UNCHANGED <<editVars, bgVars, regVars, bindCall>>

\* handleLogEvent for the first event of orm-log-channel: handleLog, then
\* Ack; a panic of the INSERT or of the LogLogger leaves the event pending
HandleLogEvent ==
  /\ Quiet
  /\ indexing.pc = "idle"
  /\ streams[logChannelName] # <<>>
  /\ LET event == streams[logChannelName][1]
     IN IF ~Unserialize(event)
        THEN /\ streams' = [streams EXCEPT ![logChannelName] = Tail(@)]
             /\ bgLast' = Dispatched(logChannelName, "bad", 1)
             /\ UNCHANGED <<logTable, faults>>
        ELSE \E execOK \in {TRUE} \cup {ok \in {FALSE} : CanFault},
                cbOK \in (IF logLogger THEN BOOLEAN ELSE {TRUE}) :
               LET R == handleLog(logLogger, inTransaction[mysqlPoolName("C")],
                                  Len(logTable) + 1, execOK, cbOK)
               IN /\ execOK \/ cbOK
                  /\ logTable' = IF R.persisted THEN Append(logTable, event.I) ELSE logTable
                  /\ faults' = IF execOK THEN faults ELSE faults + 1
                  /\ streams' = IF R.panics THEN streams
                                ELSE [streams EXCEPT ![logChannelName] = Tail(@)]
                  /\ bgLast' = [Dispatched(logChannelName,
                                           IF R.panics THEN "fault" ELSE "ok",
                                           IF R.panics THEN 0 ELSE 1)
                                  EXCEPT !.ops = R.ops]
  /\ UNCHANGED <<ent, table, autoNext, inTransaction, txSnap, localCache, redisCache,
                 lazyChannel, f, rf, engine, mutex, gs, fr, glog, snap, calls>>
  /\ UNCHANGED <<sideVars, editVars, indices, lastIDKeys, indexing>>

\* BackgroundConsumer.SetLogLogger(logger)
SetLogLogger ==
  /\ Quiet
  /\ ~logLogger
  /\ logLogger' = TRUE
  /\ UnchangedByObjects
  /\ UNCHANGED <<keysCall, upsertCall, cachePool, dbState, pipeLine>>

\* handleRedisIndexerEvent for the first event of orm-redis-search-channel,
\* up to the for loop: an event that cannot be deserialised or names an
\* unknown index is acked; otherwise the cursor starts at the id stored
\* under the key of the index version, or at 0
HandleRedisIndexerEvent ==
  /\ Quiet
  /\ indexing.pc = "idle"
  /\ streams[redisSearchIndexerChannelName] # <<>>
  /\ LET event == streams[redisSearchIndexerChannelName][1]
     IN IF ~Unserialize(event)
        THEN /\ streams' = [streams EXCEPT ![redisSearchIndexerChannelName] = Tail(@)]
             /\ bgLast' = Dispatched(redisSearchIndexerChannelName, "bad", 1)
             /\ UNCHANGED indexing
        ELSE IF event.E # SearchIndex
        THEN /\ streams' = [streams EXCEPT ![redisSearchIndexerChannelName] = Tail(@)]
             /\ bgLast' = Dispatched(redisSearchIndexerChannelName, "unknown", 1)
             /\ UNCHANGED indexing
        ELSE /\ indexing' = [pc |-> "loop",
                             id |-> IF lastIDKeys[event.I] # -1 THEN lastIDKeys[event.I] ELSE 0,
                             n |-> 0, last |-> NoIndexerCall]
             /\ bgLast' = Dispatched(redisSearchIndexerChannelName, "run", 0)
             /\ UNCHANGED streams
  /\ UNCHANGED <<ent, table, autoNext, inTransaction, txSnap, localCache, redisCache,
                 lazyChannel, f, rf, engine, mutex, gs, fr, glog, snap, faults, calls>>
  /\ UNCHANGED <<sideVars, editVars, logTable, indices, lastIDKeys>>

\* the check as it would be with the comparison off by one
loopDetectedBelow(nextID, id) == nextID < id
\* the check that follows an Indexer call that reported more rows
loopDetected(nextID, id) == nextID <= id

\* one iteration of the for loop: the Indexer is called with the cursor and
\* answers (newID, hasNext); with more rows newID is stored under the key;
\* without, the key is deleted, the older versions of the index are dropped
\* and the function returns; an Indexer that reports more rows and does not
\* advance ends in the "loop detected" panic
IndexerStep ==
  /\ Quiet
  /\ indexing.pc = "loop"
  /\ LET event == streams[redisSearchIndexerChannelName][1]
     IN \E newID \in 0..MaxCursor, hasNext \in BOOLEAN :
          LET hasMore == hasNext
              nextID == newID
              call == [id |-> indexing.id, nextID |-> nextID, hasMore |-> hasMore,
                       called |-> TRUE]
              Leaves == indexing' = [NotIndexing EXCEPT !.last = call]
          IN /\ lastIDKeys' = [lastIDKeys EXCEPT ![event.I] = IF hasMore THEN nextID ELSE -1]
             /\ IF ~hasMore
                THEN /\ indices' = {o \in indices : o >= event.I}
                     /\ bgLast' = Dispatched(redisSearchIndexerChannelName, "ok", 0)
                     /\ Leaves
                ELSE IF loopDetected(nextID, indexing.id)
                THEN /\ bgLast' = Dispatched(redisSearchIndexerChannelName, "fault", 0)
                     /\ Leaves
                     /\ UNCHANGED indices
                ELSE /\ indexing' = [pc |-> "loop", id |-> nextID, n |-> indexing.n + 1,
                                     last |-> call]
                     /\ UNCHANGED <<bgLast, indices>>
  /\ UNCHANGED <<ent, table, autoNext, inTransaction, txSnap, localCache, redisCache,
                 lazyChannel, f, rf, engine, mutex, gs, fr, glog, snap, faults, calls>>
  /\ UNCHANGED <<sideVars, editVars, streams, logTable>>

----------------------------------------------------------------------------
(* Cached reads of schema "A" *)

RowValue(tbl, id) ==
  IF tbl[id] = NoRow THEN cacheNilValue ELSE buildLocalCacheValue([ID |-> id, Name |-> tbl[id]])

\* GetByID of a stored row: local cache, then remote cache, then the
\* database; what was found is stored in the caches that missed
GetByID(g, id) ==
  /\ gs[g].pc = "idle" /\ Quiet
  /\ LET key == getCacheKey("A", id)
         v == IF redisCache[key] # Absent THEN redisCache[key] ELSE RowValue(table["A"], id)
     IN /\ table["A"][id] # NoRow
        /\ localCache[key] = Absent
        /\ localCache' = [localCache EXCEPT ![key] = v]
        /\ redisCache' = [redisCache EXCEPT ![key] = v]
  /\ UNCHANGED <<ent, table, autoNext, inTransaction, txSnap, lazyChannel, f, rf, engine,
                 mutex, gs, fr, glog, snap, faults, calls>>
  /\ UNCHANGED <<sideVars, editVars, bgVars>>

\* Search with the where clause "1": the ids of all rows of the table
Search(s) == {i \in 1..MaxID : table[s][i] # NoRow}

\* whether GetAll of the cacheAll schema selects from the database, and the
\* ids it returns: those under the index key in the local cache, else in
\* the remote cache, else the rows of the table
GetAllQueries ==
  /\ localCache[getCacheKeySearch("A", cacheAllFakeReferenceKey)] = Absent
  /\ redisCache[getCacheKeySearch("A", cacheAllFakeReferenceKey)] = Absent
GetAllResult ==
  LET key == getCacheKeySearch("A", cacheAllFakeReferenceKey)
  IN IF localCache[key] # Absent THEN localCache[key].ids
     ELSE IF redisCache[key] # Absent THEN redisCache[key].ids
     ELSE Search("A")

\* GetAll of the cacheAll schema when the local cache does not hold the
\* index key: what was found is stored in the caches that missed
GetAll(g) ==
  /\ gs[g].pc = "idle" /\ Quiet
  /\ LET key == getCacheKeySearch("A", cacheAllFakeReferenceKey)
         v == QueryResult(GetAllResult)
     IN /\ localCache[key] = Absent
        /\ localCache' = [localCache EXCEPT ![key] = v]
        /\ redisCache' = [redisCache EXCEPT ![key] = v]
  /\ UNCHANGED <<ent, table, autoNext, inTransaction, txSnap, lazyChannel, f, rf, engine,
                 mutex, gs, fr, glog, snap, faults, calls>>
  /\ UNCHANGED <<sideVars, editVars, bgVars>>

----------------------------------------------------------------------------------------------------------------------------------------
(* Field-level edits: EditEntityField.  The schemas have the string       *)
(* columns `Name` and `Code`; schema "B" has a unique index over both.     *)
(* No operation writes `Code`.  Entities enter the tracked map through     *)
(* EditEntityField or DeleteEntity.                                        *)

\* the entities an application edits: one of schema "A", stored or not,
\* and one of the schema with the unique index
EditEntities == {"e1", "e3"}
\* the field names an application passes: the columns and an unknown one
FieldNames == Columns \cup {"Nope"}
\* values an application passes to EditEntityField ("#": not a string)
RawValues == {"a", "b", "", "abc", "#"}
BindErr == "!"
\* schema.fieldBindSetters of a string column that is not required: the
\* canonical bind value, or an error
setter(v) ==
  IF v = "#" THEN BindErr
  ELSE IF v = "" THEN Null
  ELSE IF Len(v) > length THEN BindErr
  ELSE v

\* getter(elem) / elem.FieldByName(column).Interface()
FieldByName(e, column) == IF column = "Name" THEN ent[e].Name ELSE InitialCode(e)

\* the columns of the unique indexes that hold the field
indexColumns(s, field) ==
  UNION {{ix[j] : j \in 1..Len(ix)} : ix \in {x \in GetUniqueIndexes(s) :
                                                \E j \in 1..Len(x) : x[j] = field}}

\* addUniqueIndexFieldsToBind: a column of such an index that oldBind does
\* not hold (or holds as nil) gets the entity's value in both binds
addUniqueIndexFieldsToBind(s, field, slot, e) ==
  LET add == {c \in indexColumns(s, field) : slot.oldBind[c] \in {NoBind, Null}}
  IN [slot EXCEPT
        !.newBind = [c \in Columns |-> IF c \in add THEN setter(FieldByName(e, c)) ELSE @[c]],
        !.oldBind = [c \in Columns |-> IF c \in add THEN setter(FieldByName(e, c)) ELSE @[c]]]

\* the entry stored for a key that is not in the map yet, and the update of
\* an editableFields entry that is
editedSlot(slot, e, field, newValue, oldValue) ==
  LET base == IF slot.kind = "none"
              THEN [kind |-> "fields", value |-> e, newBind |-> NoBinds, oldBind |-> NoBinds]
              ELSE slot
  IN addUniqueIndexFieldsToBind(tableSchema(e), field,
       [base EXCEPT !.newBind[field] = newValue, !.oldBind[field] = oldValue], e)

\* ghost: the result of the last call on the entity (tick tells one call
\* from the next); for the field Name the canonical value of the last
\* successful call and the field value before the first one
edited(le, field, res, newValue, oldValue) ==
  LET call == [le EXCEPT !.res = res, !.tick = 1 - @]
  IN IF res # "nil" \/ field # "Name" THEN call
     ELSE [call EXCEPT !.value = newValue,
                       !.first = IF le.first = NoBind THEN oldValue ELSE le.first]

EditEntityField(e, field, value) ==
  /\ Quiet
  /\ LET newValue == setter(value)
         oldValue == setter(FieldByName(e, field))
         key == <<tableSchema(e), ent[e].ID>>
         slot == ctxTracked[key]
         Returns(res) == lastEdit' = [lastEdit EXCEPT ![e] =
                                        edited(@, field, res, newValue, oldValue)]
     IN IF field \notin Columns
        THEN Returns("BindError") /\ UNCHANGED ctxTracked
        ELSE IF newValue = BindErr
        THEN Returns("BindError") /\ UNCHANGED ctxTracked
        ELSE IF oldValue # BindErr /\ oldValue = newValue
        THEN Returns("nil") /\ UNCHANGED ctxTracked
        ELSE IF slot.kind \in {"none", "fields"}
        THEN /\ ctxTracked' = [ctxTracked EXCEPT ![key] =
                                 editedSlot(slot, e, field, newValue, oldValue)]
             /\ Returns("nil")
        ELSE Returns("BindError") /\ UNCHANGED ctxTracked
  /\ UNCHANGED <<ent, table, autoNext, inTransaction, txSnap, localCache, redisCache,
                 lazyChannel, f, rf, engine, mutex, gs, fr, glog, snap, faults, calls, bgVars,
                 sideVars>>

\* DeleteEntity of a persisted entity that has no entry yet
DeleteEntity(e) ==
  /\ Quiet
  /\ ent[e].inDB
  /\ ctxTracked[<<tableSchema(e), ent[e].ID>>].kind = "none"
  /\ ctxTracked' = [ctxTracked EXCEPT ![<<tableSchema(e), ent[e].ID>>] =
                       [kind |-> "remove", value |-> e, newBind |-> NoBinds, oldBind |-> NoBinds]]
  /\ UNCHANGED <<ent, table, autoNext, inTransaction, txSnap, localCache, redisCache,
                 lazyChannel, f, rf, engine, mutex, gs, fr, glog, snap, faults, calls, lastEdit,
                 bgVars, sideVars>>

----------------------------------------------------------------------------
(* Bind setters and field setters of the columns.  A string is a sequence  *)
(* of characters; the words have WordBits and ByteBits bits.               *)

RECURSIVE Pow2(_)
Pow2(n) == IF n = 0 THEN 1 ELSE 2 * Pow2(n - 1)

\* the ranges of the integer types
MaxUint(bits) == Pow2(bits) - 1
MaxInt(bits) == Pow2(bits - 1) - 1
MinInt(bits) == -Pow2(bits - 1)
Bits(kind) == IF kind \in {"uint8", "int8", "*uint8", "*int8"} THEN ByteBits ELSE WordBits

\* the conversions uint64(x) and int64(x) between integer types: the bits stay
uint64(x) == x % Pow2(WordBits)
int64(x) == LET u == x % Pow2(WordBits)
            IN IF u > MaxInt(WordBits) THEN u - Pow2(WordBits) ELSE u
\* int64(f) of a float (in hundredths) inside the range of int64: the
\* fraction is dropped
truncate(x) == IF x >= 0 THEN x \div 100 ELSE -((-x) \div 100)

DigitChars == <<"0", "1", "2", "3", "4", "5", "6", "7", "8", "9">>
IsDigit(c) == \E d \in 1..10 : DigitChars[d] = c
DigitOf(c) == (CHOOSE d \in 1..10 : DigitChars[d] = c) - 1

\* the number a sequence of digits writes
RECURSIVE Decimal(_)
Decimal(str) ==
  IF str = <<>> THEN 0
  ELSE 10 * Decimal(SubSeq(str, 1, Len(str) - 1)) + DigitOf(str[Len(str)])

AllDigits(str) == str # <<>> /\ \A j \in 1..Len(str) : IsDigit(str[j])

\* strconv.ParseUint(s, 10, 64) and strconv.ParseInt(s, 10, 64)
ParseUint(str) ==
  IF AllDigits(str) /\ Decimal(str) <= MaxUint(WordBits)
  THEN [err |-> FALSE, n |-> Decimal(str)]
  ELSE [err |-> TRUE, n |-> 0]
ParseInt(str) ==
  LET signed == str # <<>> /\ str[1] \in {"-", "+"}
      digits == IF signed THEN Tail(str) ELSE str
      n == IF signed /\ str[1] = "-" THEN -Decimal(digits) ELSE Decimal(digits)
  IN IF AllDigits(digits) /\ n >= MinInt(WordBits) /\ n <= MaxInt(WordBits)
     THEN [err |-> FALSE, n |-> n]
     ELSE [err |-> TRUE, n |-> 0]

UnsignedKinds == {"uint8", "uint64"}
SignedKinds == {"int8", "int64"}
FloatKinds == {"float64"}
PointerTo(kinds) == {"*" \o k : k \in kinds}

\* the switch of createNumberFieldBindSetter over the type of v: what it
\* leaves in asUint64 and asInt64
numberSwitch(col, v) ==
  IF v.kind = "string"
  THEN IF col.unsigned
       THEN [err |-> ParseUint(v.str).err, asUint64 |-> ParseUint(v.str).n, asInt64 |-> 0]
       ELSE [err |-> ParseInt(v.str).err, asUint64 |-> 0, asInt64 |-> ParseInt(v.str).n]
  ELSE IF v.kind \in UnsignedKinds \cup PointerTo(UnsignedKinds)
  THEN [err |-> FALSE, asUint64 |-> uint64(v.val), asInt64 |-> 0]
  ELSE IF v.kind \in SignedKinds \cup PointerTo(SignedKinds)
  THEN [err |-> FALSE, asUint64 |-> 0, asInt64 |-> int64(v.val)]
  ELSE [err |-> FALSE, asUint64 |-> 0, asInt64 |-> truncate(v.val)]

NumberKinds == UnsignedKinds \cup SignedKinds \cup FloatKinds

\* createNumberFieldBindSetter(columnName, unsigned, nullable, min, max)(v)
createNumberFieldBindSetter(col, v) ==
  LET sw == numberSwitch(col, v)
      asInt64 == IF sw.asUint64 > 0 THEN int64(sw.asUint64) ELSE sw.asInt64
      asUint64 == IF sw.asInt64 > 0 THEN uint64(sw.asInt64) ELSE sw.asUint64
  IN IF v = untypedNil
     THEN IF ~col.nullable THEN BindError("nil is not allowed") ELSE NullBind
     ELSE IF v.kind \notin {"string"} \cup NumberKinds \cup PointerTo(NumberKinds)
     THEN BindError("invalid value")
     ELSE IF v.kind = "string" /\ sw.err
     THEN BindError("invalid number")
     ELSE IF v.isNil
     THEN IF ~col.nullable THEN BindError("nil is not allowed") ELSE NullBind
     ELSE IF ~col.unsigned
     THEN IF asInt64 > 0 /\ uint64(asInt64) > col.max
          THEN BindError("exceeded max allowed value")
          ELSE IF asInt64 < 0 /\ asInt64 < col.min
          THEN BindError("exceeded min allowed value")
          ELSE Bound(Value("int64", FALSE, asInt64, <<>>))
     ELSE IF sw.asInt64 < 0
     THEN BindError("negative number not allowed")
     ELSE IF asUint64 > col.max
     THEN BindError("exceeded max allowed value")
     ELSE Bound(Value("uint64", FALSE, asUint64, <<>>))

\* roundFloat(f, 1) of a float in hundredths: the nearest tenth, halves
\* away from zero; a negative float that rounds to zero stays negative zero
roundFloat(x) == [neg |-> x < 0, tenths |-> ((IF x < 0 THEN -x ELSE x) + 5) \div 10]

\* strconv.FormatUint(n, 10)
RECURSIVE FormatUint(_)
FormatUint(n) ==
  IF n < 10 THEN <<DigitChars[n + 1]>> ELSE FormatUint(n \div 10) \o <<DigitChars[(n % 10) + 1]>>

\* strconv.FormatFloat(roundV, 'f', 1, floatsSize)
FormatFloat(r) ==
  (IF r.neg THEN <<"-">> ELSE <<>>) \o FormatUint(r.tenths \div 10)
    \o <<".", DigitChars[(r.tenths % 10) + 1]>>

\* strings.Index(val, ".")
IndexOfDot(str) == IF \E j \in 1..Len(str) : str[j] = "."
                   THEN (CHOOSE j \in 1..Len(str) : str[j] = "." /\ \A k \in 1..(j - 1) : str[k] # ".") - 1
                   ELSE -1

\* strconv.ParseFloat(s, 64) of a decimal with at most two digits after the
\* point, in hundredths
ParseFloat(str) ==
  LET signed == str # <<>> /\ str[1] \in {"-", "+"}
      body == IF signed THEN Tail(str) ELSE str
      dot == IndexOfDot(body)
      whole == IF dot = -1 THEN body ELSE SubSeq(body, 1, dot)
      frac == IF dot = -1 THEN <<>> ELSE SubSeq(body, dot + 2, Len(body))
      cents == IF Len(frac) = 1 THEN 10 * Decimal(frac) ELSE Decimal(frac)
      n == 100 * Decimal(whole) + cents
      wellFormed == /\ whole \o frac # <<>>
                    /\ \A j \in 1..Len(whole) : IsDigit(whole[j])
                    /\ \A j \in 1..Len(frac) : IsDigit(frac[j])
                    /\ Len(frac) <= 2
  IN IF wellFormed
     THEN [err |-> FALSE, x |-> IF signed /\ str[1] = "-" THEN -n ELSE n,
           neg |-> signed /\ str[1] = "-"]
     ELSE [err |-> TRUE, x |-> 0, neg |-> FALSE]

\* createFloatFieldBindSetter(columnName, unsigned, nullable, 1, floatsSize,
\* floatsDecimalSize)(v); the column's max holds floatsDecimalSize
createFloatFieldBindSetter(col, v) ==
  LET parsed == ParseFloat(v.str)
      asFloat64 == IF v.kind = "string" THEN parsed.x
                   ELSE IF v.kind \in FloatKinds \cup PointerTo(FloatKinds) THEN v.val
                   ELSE 100 * v.val
      val == FormatFloat(roundFloat(asFloat64))
  IN IF v = untypedNil
     THEN IF ~col.nullable THEN BindError("nil is not allowed") ELSE NullBind
     ELSE IF v.kind \notin {"string"} \cup NumberKinds \cup PointerTo(FloatKinds)
     THEN BindError("invalid value")
     ELSE IF v.kind = "string" /\ parsed.err
     THEN BindError("invalid number")
     ELSE IF v.isNil
     THEN NullBind
     ELSE IF col.unsigned /\ asFloat64 < 0
     THEN BindError("negative number not allowed")
     ELSE IF asFloat64 = 0
     THEN Bound(Value("string", FALSE, 0, <<"0">>))
     ELSE IF col.max # -1 /\ IndexOfDot(val) > col.max
     THEN BindError("decimal size too big")
     ELSE Bound(Value("string", FALSE, 0, val))

\* the type t of the referenced entity, and another registered type
ReferencedType == "T"
EntityTypes == {ReferencedType, "U"}

\* the idSetter of a reference column: the bind setter of the ID column
idSetter(v) ==
  createNumberFieldBindSetter(Column("number", TRUE, FALSE, 0, MaxUint(WordBits), ""), v)

\* createReferenceFieldBindSetter(columnName, t, idSetter, nullable)(v): an
\* entity (or a pointer to one) of type t gives its ID, a ReferenceInterface
\* its id, anything else goes through idSetter; reflect.Indirect of a nil
\* pointer is the zero Value, and Type() of the zero Value panics
createReferenceFieldBindSetter(col, v) ==
  LET Id(id) == IF id = 0
                THEN IF ~col.nullable THEN BindError("nil is not allowed") ELSE NullBind
                ELSE Bound(Value("uint64", FALSE, id, <<>>))
  IN IF v = untypedNil
     THEN IF ~col.nullable THEN BindError("nil is not allowed") ELSE NullBind
     ELSE IF v.isNil
     THEN Panics
     ELSE IF v.kind \in {"entity", "*entity"} /\ v.str = <<ReferencedType>>
     THEN Id(v.val)
     ELSE IF v.kind = "reference"
     THEN IF v.str # <<ReferencedType>> THEN BindError("invalid reference type") ELSE Id(v.val)
     ELSE IF idSetter(v).err # ""
     THEN idSetter(v)
     ELSE Id(idSetter(v).v.val)

\* t.Format(layout) of a time of day val \div 10 and second val % 10: the
\* layout "date" writes the day, the layout "datetime" the day and the second
Format(layout, t) ==
  IF layout = "date" THEN <<DigitChars[(t \div 10) + 1]>>
  ELSE <<DigitChars[(t \div 10) + 1], ":", DigitChars[(t % 10) + 1]>>

\* time.ParseInLocation(layout, s, time.UTC)
ParseInLocation(layout, str) ==
  IF layout = "date" /\ Len(str) = 1 /\ AllDigits(str)
  THEN [err |-> FALSE, t |-> 10 * Decimal(str)]
  ELSE IF layout = "datetime" /\ Len(str) = 3 /\ IsDigit(str[1]) /\ str[2] = ":" /\ IsDigit(str[3])
  THEN [err |-> FALSE, t |-> 10 * DigitOf(str[1]) + DigitOf(str[3])]
  ELSE [err |-> TRUE, t |-> 0]

\* createDateFieldBindSetter(columnName, layout, nullable)(v); the location
\* of a time is in its str; Location() of a nil *time.Time panics
createDateFieldBindSetter(col, v) ==
  IF v = untypedNil
  THEN IF ~col.nullable THEN BindError("nil is not allowed") ELSE NullBind
  ELSE IF v.kind \in {"time", "*time"}
  THEN IF v.isNil THEN Panics
       ELSE IF v.str # <<"UTC">> THEN BindError("time must be in UTC location")
       ELSE Bound(Value("string", FALSE, 0, Format(col.layout, v.val)))
  ELSE IF v.kind = "string"
  THEN IF ParseInLocation(col.layout, v.str).err THEN BindError("invalid time")
       ELSE Bound(Value("string", FALSE, 0, Format(col.layout, ParseInLocation(col.layout, v.str).t)))
  ELSE BindError("invalid value")

\* the bind setter of a column
bindSetter(col, v) ==
  IF col.type = "number" THEN createNumberFieldBindSetter(col, v)
  ELSE IF col.type = "float" THEN createFloatFieldBindSetter(col, v)
  ELSE IF col.type = "reference" THEN createReferenceFieldBindSetter(col, v)
  ELSE createDateFieldBindSetter(col, v)

\* the Go type of the entity field of a column
fieldKind(col) ==
  LET base == IF col.type = "number"
              THEN IF col.unsigned
                   THEN (IF col.max = MaxUint(ByteBits) THEN "uint8" ELSE "uint64")
                   ELSE (IF col.max = MaxInt(ByteBits) THEN "int8" ELSE "int64")
              ELSE IF col.type = "float" THEN "float64"
              ELSE IF col.type = "reference" THEN "uint64"
              ELSE "time"
  IN IF col.nullable /\ col.type # "reference" THEN "*" \o base ELSE base

\* field.SetInt(x) and field.SetUint(x): the field keeps the bits it has room for
SetInt(kind, x) ==
  LET u == x % Pow2(Bits(kind))
  IN IF u > MaxInt(Bits(kind)) THEN u - Pow2(Bits(kind)) ELSE u
SetUint(kind, x) == x % Pow2(Bits(kind))

\* a type assertion v.(string) on a nil interface, in a setter that does not
\* test v == nil first
panicked == Value("panic", FALSE, 0, <<>>)

\* createNumberFieldSetter(attributes, unsigned, nullable, arrayIndex)(v, elem)
createNumberFieldSetter(col, bind) ==
  IF bind.null
  THEN Value(fieldKind(col), col.nullable, 0, <<>>)
  ELSE IF col.unsigned
  THEN Value(fieldKind(col), FALSE, SetUint(fieldKind(col), bind.v.val), <<>>)
  ELSE Value(fieldKind(col), FALSE, SetInt(fieldKind(col), bind.v.val), <<>>)

\* createFloatFieldSetter and createFloatNullableFieldSetter
createFloatFieldSetter(col, bind) ==
  IF bind.null
  THEN IF col.nullable THEN Value(fieldKind(col), TRUE, 0, <<>>) ELSE panicked
  ELSE Value(fieldKind(col), FALSE, ParseFloat(bind.v.str).x, <<>>)

\* createTimeFieldSetter and createTimeNullableFieldSetter
createTimeFieldSetter(col, bind) ==
  IF bind.null
  THEN IF col.nullable THEN Value(fieldKind(col), TRUE, 0, <<>>) ELSE panicked
  ELSE Value(fieldKind(col), FALSE, ParseInLocation(col.layout, bind.v.str).t, <<"UTC">>)

\* createReferenceFieldSetter
createReferenceFieldSetter(col, bind) ==
  IF bind.null THEN Value(fieldKind(col), FALSE, 0, <<>>)
  ELSE Value(fieldKind(col), FALSE, SetUint(fieldKind(col), bind.v.val), <<>>)

\* the field setter of a column
fieldSetter(col, bind) ==
  IF col.type = "number" THEN createNumberFieldSetter(col, bind)
  ELSE IF col.type = "float" THEN createFloatFieldSetter(col, bind)
  ELSE IF col.type = "reference" THEN createReferenceFieldSetter(col, bind)
  ELSE createTimeFieldSetter(col, bind)

\* createFieldGetter(attributes, nullable, arrayIndex)(elem)
createFieldGetter(col, field) ==
  IF col.nullable /\ col.type # "reference" /\ field.isNil THEN untypedNil ELSE field

UnchangedBySetters ==
  /\ UNCHANGED <<ent, table, autoNext, inTransaction, txSnap, localCache, redisCache,
                 lazyChannel, f, rf, engine, mutex, gs, fr, glog, snap, faults, calls>>
  /\ UNCHANGED <<editVars, bgVars, regVars, objVars>>

\* the first call in a behaviour of the bind setter of a column
Called(name, col, v, bind) ==
  /\ bindCall = NoBindCall
  /\ bindCall' = [NoBindCall EXCEPT !.setter = name, !.col = col, !.given = v, !.bind = bind]

BindNumber(col, v) ==
  /\ Called("number", col, v, createNumberFieldBindSetter(col, v))
  /\ UnchangedBySetters

BindFloat(col, v) ==
  /\ Called("float", col, v, createFloatFieldBindSetter(col, v))
  /\ UnchangedBySetters

BindReference(col, v) ==
  /\ Called("reference", col, v, createReferenceFieldBindSetter(col, v))
  /\ UnchangedBySetters

BindDate(col, v) ==
  /\ Called("date", col, v, createDateFieldBindSetter(col, v))
  /\ UnchangedBySetters

\* the canonical value the bind setter accepted is written into the entity
\* with the field setter and the field is bound again; the canonical value
\* itself is bound too
WriteField ==
  /\ bindCall.setter # "" /\ ~bindCall.stored
  /\ bindCall.bind.err = ""
  /\ LET col == bindCall.col
         field == fieldSetter(col, bindCall.bind)
         canonical == IF bindCall.bind.null THEN untypedNil ELSE bindCall.bind.v
     IN bindCall' = [bindCall EXCEPT
                       !.stored = TRUE,
                       !.field = field,
                       !.again = IF field = panicked THEN Panics
                                 ELSE bindSetter(col, createFieldGetter(col, field)),
                       !.fixed = bindSetter(col, canonical)]
  /\ UnchangedBySetters

----------------------------------------------------------------------------
(* The registry: Register* on the source Registry, and Validate.  A Go map *)
(* is a reference: a field holds nil or the address of a map in `heap`,    *)
(* and an assignment of a map copies the address, not the content.         *)

asyncConsumerGroupName == "orm-async-consumer"

\* m[k] = v on a map, and _, has := m[k]
Put(m, k, v) == {p \in m : p[1] # k} \cup {<<k, v>>}
Has(m, k) == \E p \in m : p[1] = k

\* the map behind a field (ranging over a nil map yields nothing)
MapOf(h, ref) == IF ref = nil THEN {} ELSE h[ref]

\* `if r.x == nil { r.x = make(...) }` followed by r.x[k] = v
PutField(st, x, k, v) ==
  LET made == IF st.r[x] = nil THEN [st.r EXCEPT ![x] = <<"r", x>>] ELSE st.r
      h1 == IF st.r[x] = nil THEN [st.h EXCEPT ![<<"r", x>>] = {}] ELSE st.h
  IN [r |-> made, h |-> [h1 EXCEPT ![made[x]] = Put(@, k, v)]]

\* Registry.RegisterRedisStream on the state st = (registry, heap) for a
\* name that is not registered yet: both maps are made together
registerRedisStream(st, name, redisPool, groups) ==
  LET first == st.r.redisStreamGroups = nil
      r1 == IF first
            THEN [st.r EXCEPT !.redisStreamGroups = <<"r", "redisStreamGroups">>,
                              !.redisStreamPools = <<"r", "redisStreamPools">>]
            ELSE st.r
      h1 == IF first
            THEN [st.h EXCEPT ![<<"r", "redisStreamGroups">>] = {},
                              ![<<"r", "redisStreamPools">>] = {}]
            ELSE st.h
  IN [r |-> r1,
      h |-> [h1 EXCEPT ![r1.redisStreamPools] = Put(@, name, redisPool),
                       ![r1.redisStreamGroups] = Put(@, <<redisPool, name>>, groups)]]

Registered(st) == /\ registry' = st.r
                  /\ heap' = st.h
                  /\ UNCHANGED validated

UnchangedByRegistry ==
  /\ UNCHANGED <<ent, table, autoNext, inTransaction, txSnap, localCache, redisCache,
                 lazyChannel, f, rf, engine, mutex, gs, fr, glog, snap, faults, calls>>
  /\ UNCHANGED <<editVars, bgVars, bindCall, objVars>>

RegisterEntity(name) ==
  /\ Registered(PutField([r |-> registry, h |-> heap], "entities", name, name))
  /\ UnchangedByRegistry

RegisterLocalCache(size, code) ==
  /\ Registered(PutField([r |-> registry, h |-> heap], "localCachePools", code, size))
  /\ UnchangedByRegistry

RegisterEnum(code, values) ==
  /\ Registered(PutField([r |-> registry, h |-> heap], "enums", code, values))
  /\ UnchangedByRegistry

RegisterRedisSearchIndex(index) ==
  /\ Registered(PutField([r |-> registry, h |-> heap], "redisSearchIndices",
                         <<index.RedisPool, index.Name>>, index))
  /\ UnchangedByRegistry

\* a name that is registered already ends in a panic
RegisterRedisStream(name, redisPool, groups) ==
  /\ ~Has(MapOf(heap, registry.redisStreamPools), name)
  /\ Registered(registerRedisStream([r |-> registry, h |-> heap], name, redisPool, groups))
  /\ UnchangedByRegistry

\* Validate, without the connections it opens: the pools, enums, search
\* indexes and entities are copied into maps of the validated registry; the
\* core streams that are missing are registered on the source; the two
\* stream maps of the source are assigned to the validated registry
Validate ==
  /\ validated = NotValidated
  /\ LET Copy(h, to, from) == [h EXCEPT ![<<"v", to>>] = MapOf(h, from)]
         h1 == Copy(heap, "localCacheServers", registry.localCachePools)
         h2 == Copy(h1, "enums", registry.enums)
         h3 == Copy(h2, "redisSearchIndexes", registry.redisSearchIndices)
         h4 == Copy(h3, "entities", registry.entities)
         anyLog == \E p \in MapOf(heap, registry.entities) : hasLog(p[1])
         Missing(st, name) == ~Has(MapOf(st.h, st.r.redisStreamPools), name)
         Core(st, wanted, name) ==
           IF wanted /\ Missing(st, name)
           THEN registerRedisStream(st, name, "default", {asyncConsumerGroupName})
           ELSE st
         s1 == Core([r |-> registry, h |-> h4], TRUE, lazyChannelName)
         s2 == Core(s1, anyLog, logChannelName)
         s3 == Core(s2, h4[<<"v", "redisSearchIndexes">>] # {}, redisSearchIndexerChannelName)
     IN /\ registry' = s3.r
        /\ heap' = s3.h
        /\ validated' = [entities |-> <<"v", "entities">>,
                         localCacheServers |-> <<"v", "localCacheServers">>,
                         enums |-> <<"v", "enums">>,
                         redisSearchIndexes |-> <<"v", "redisSearchIndexes">>,
                         redisStreamGroups |-> s3.r.redisStreamGroups,
                         redisStreamPools |-> s3.r.redisStreamPools]
  /\ UnchangedByRegistry

\* what the validated registry shows: the content of each of its maps
Observable(v, h) == [x \in ValidatedFields |-> MapOf(h, v[x])]

----------------
(* Specifications *)

\* what the application does between flush calls
App(g) ==
  \/ \E e \in Entities, v \in Vals : SetField(g, e, v)
  \/ \E e \in Entities, id \in PresetIDs : SetID(g, e, id)
  \/ \E e \in Entities : Track(g, e)
  \/ \E e \in Entities : Delete(g, e)
  \/ \E e \in Entities : ForceDelete(g, e)
  \/ Clear(g)
  \/ Ack(g)

\* the steps of a flush body without transaction
Body(g) ==
  \/ Lock(g)
  \/ Classify(g)
  \/ Insert(g)
  \/ Update(g)
  \/ DeleteExec(g)
  \/ Finish(g)

SyncCalls == CallKinds \ {"FlushLazy"}

\* synchronous and transactional flushes of one goroutine
Next ==
  \/ App("g1")
  \/ \E call \in SyncCalls : CallFlush("g1", call)
  \/ Body("g1")
  \/ Begin("g1")
  \/ Commit("g1")
  \/ GetAll("g1")

Spec == Init /\ [][Next]_vars

\* lazy and synchronous flushes of the cached schema, the consumer and
\* cached reads
LazyEntities == {e \in Entities : tableSchema(e) = "A"}

NextLazy ==
  \/ \E e \in LazyEntities : Track("g1", e)
  \/ \E e \in LazyEntities : Delete("g1", e)
  \/ \E e \in LazyEntities, v \in Vals : SetField("g1", e, v)
  \/ Ack("g1")
  \/ \E call \in {"Flush", "FlushLazy"} : CallWithin("g1", call, MaxLazyCalls)
  \/ Body("g1")
  \/ Consume
  \/ \E id \in 1..MaxID : GetByID("g1", id)
  \/ GetAll("g1")

SpecLazy == Init /\ [][NextLazy]_vars

CheckedCalls == {"FlushWithCheck", "FlushInTransactionWithCheck", "FlushWithFullCheck"}

\* one entity of each pool, so that a checked flush opens two transactions
CheckedEntities == {"e1", "e3"}

\* the checked flushes of one goroutine
NextChecked ==
  \/ \E e \in CheckedEntities : Track("g1", e)
  \/ \E e \in CheckedEntities : Delete("g1", e)
  \/ \E e \in CheckedEntities, v \in Vals : SetField("g1", e, v)
  \/ Ack("g1")
  \/ \E call \in CheckedCalls : CallFlush("g1", call)
  \/ Body("g1")
  \/ Begin("g1")
  \/ Commit("g1")

SpecChecked == Init /\ [][NextChecked]_vars

\* two goroutines that flush the same flusher; the entities are tracked
\* and modified by the first
NextConc ==
  \/ \E e \in CheckedEntities : Track("g1", e)
  \/ Delete("g1", "e1")
  \/ \E v \in Vals : SetField("g1", "e1", v)
  \/ \E g \in Goroutines :
       \/ CallFlush(g, "Flush")
       \/ Body(g)
       \/ Ack(g)

SpecConc == Init /\ [][NextConc]_vars

\* field-level edits of the entities
NextEdit ==
  \/ \E e \in EditEntities, field \in FieldNames, value \in RawValues :
       EditEntityField(e, field, value)
  \/ \E e \in EditEntities : DeleteEntity(e)

SpecEdit == Init /\ [][NextEdit]_vars

\* flushes of the schema with a log table and dirty streams, and the lazy
\* handler
NextEvents ==
  \/ \E e \in EventEntities : Track("g1", e)
  \/ \E e \in EventEntities : Delete("g1", e)
  \/ \E e \in EventEntities, v \in Vals : SetField("g1", e, v)
  \/ \E e \in EventEntities, id \in PresetIDs : SetID("g1", e, id)
  \/ Ack("g1")
  \/ \E call \in {"Flush", "FlushLazy"} : CallWithin("g1", call, MaxEventCalls)
  \/ Body("g1")
  \/ Consume

SpecEvents == Init /\ [][NextEvents]_vars

\* deletes of a parent whose children cascade, and of a child, by Flush and
\* FlushInTransaction, with cached reads of the children
CascadeScope == {"e3", "c1"}

NextCascade ==
  \/ \E e \in CascadeScope : Delete("g1", e)
  \/ \E id \in 1..MaxID : GetByID("g1", id)
  \/ \E call \in {"Flush", "FlushInTransaction"} : CallWithin("g1", call, MaxCalls)
  \/ Lock("g1")
  \/ Begin("g1")
  \/ Classify("g1")
  \/ DeleteExec("g1")
  \/ Finish("g1")
  \/ Commit("g1")

SpecCascade == InitCascade /\ [][NextCascade]_vars

\* one flush of a cascade, of an entity with an unsaved reference or of two
\* unsaved entities that refer to each other; the goroutine that runs the
\* flush goes on until the call has ended
TermScope == {"e7", "k1"}

FlushStep(g) ==
  \/ Lock(g)
  \/ Begin(g)
  \/ Classify(g)
  \/ Insert(g)
  \/ DeleteExec(g)
  \/ Finish(g)
  \/ Commit(g)

NextTerm ==
  \/ \E e \in CascadeScope : Delete("g1", e)
  \/ \E e \in TermScope : Track("g1", e)
  \/ \E call \in {"Flush", "FlushInTransaction"} : CallWithin("g1", call, MaxCalls)
  \/ FlushStep("g1")

SpecTerm == InitCascade /\ [][NextTerm]_vars /\ WF_vars(FlushStep("g1"))

\* updates of up to three entities of one pool, by Flush and
\* FlushInTransaction
BatchScope == {"e1", "e2", "c2"}

NextBatch ==
  \/ \E e \in BatchScope : Track("g1", e)
  \/ \E e \in BatchScope, v \in Vals : SetField("g1", e, v)
  \/ \E call \in {"Flush", "FlushInTransaction"} : CallWithin("g1", call, MaxCalls)
  \/ Lock("g1")
  \/ Begin("g1")
  \/ Classify("g1")
  \/ Update("g1")
  \/ Finish("g1")
  \/ Commit("g1")

SpecBatch == InitBatch /\ [][NextBatch]_vars

\* flushes of entities with unsaved references or an OnDuplicateKeyUpdate
\* clause, next to a stored entity
NextRefs ==
  \/ \E e \in RefScope : Track("g1", e)
  \/ Delete("g1", "e1")
  \/ \E v \in Vals : SetField("g1", "e1", v)
  \/ Ack("g1")
  \/ \E call \in {"Flush", "FlushLazy"} : CallWithin("g1", call, MaxEventCalls)
  \/ Body("g1")
  \/ Consume

SpecRefs == Init /\ [][NextRefs]_vars

\* an application that builds a registry, validates it and goes on
\* registering on the source
EntityNames == {"A", "C"}
PoolCodes == {"default", "second"}
CacheSizes == {1, 2}
EnumValues == {<<"x">>, <<"x", "y">>}
StreamGroups == {{"g1"}, {"g1", "g2"}}

NextRegistry ==
  \/ \E name \in EntityNames : RegisterEntity(name)
  \/ \E size \in CacheSizes : RegisterLocalCache(size, "default")
  \/ \E values \in EnumValues : RegisterEnum("en", values)
  \/ RegisterRedisSearchIndex([RedisPool |-> "default", Name |-> SearchIndex])
  \/ \E redisPool \in PoolCodes, groups \in StreamGroups :
       RegisterRedisStream("dirty", redisPool, groups)
  \/ Validate

SpecRegistry == Init /\ [][NextRegistry]_vars

\* the integer columns: of the narrow and of the wide type, signed and
\* unsigned, nullable or not
NumberColumns ==
  {Column("number", FALSE, n, MinInt(b), MaxInt(b), "") : n \in BOOLEAN, b \in {ByteBits, WordBits}}
  \cup {Column("number", TRUE, n, 0, MaxUint(b), "") : n \in BOOLEAN, b \in {ByteBits, WordBits}}

\* the strings an application passes where a number is expected
NumberStrings == {<<"7">>, <<"-", "3">>, <<"+", "2">>, <<"1", "2">>, <<"-", "1", "2">>,
                  <<"4", "0">>, <<"-", "4", "0">>, <<"x">>, <<>>, <<"0">>}
\* floats, in hundredths
FloatValues == {-1250, -300, -50, 0, 50, 250, 700, 1250}

\* the values of the accepted types, by value and behind a pointer, the nil
\* pointers, untyped nil, and a value of no accepted type
NumberInputs ==
  {untypedNil, Value("bool", FALSE, 1, <<>>)}
  \cup {Value("string", FALSE, 0, str) : str \in NumberStrings}
  \cup {Value(p \o k, FALSE, n, <<>>) : p \in {"", "*"}, k \in UnsignedKinds,
                                         n \in 0..MaxUint(WordBits)}
  \cup {Value(p \o k, FALSE, n, <<>>) : p \in {"", "*"}, k \in SignedKinds,
                                         n \in MinInt(WordBits)..MaxInt(WordBits)}
  \cup {Value(p \o "float64", FALSE, x, <<>>) : p \in {"", "*"}, x \in FloatValues}
  \cup {Value(k, TRUE, 0, <<>>) : k \in PointerTo(NumberKinds)}

\* float columns with one digit after the point, floatsDecimalSize 1 or -1
FloatColumns == {Column("float", u, n, 0, d, "") : u \in BOOLEAN, n \in BOOLEAN, d \in {1, -1}}
FloatStrings == {<<"1", ".", "5">>, <<"0", ".", "0">>, <<"-", "0", ".", "0">>, <<"0">>,
                 <<"0", ".", "0", "4">>, <<"1", "2", ".", "2", "5">>, <<"-", "2">>,
                 <<"x">>, <<>>, <<".">>}
FloatInputs ==
  {untypedNil, Value("bool", FALSE, 1, <<>>)}
  \cup {Value("string", FALSE, 0, str) : str \in FloatStrings}
  \cup {Value(k, FALSE, n, <<>>) : k \in UnsignedKinds, n \in 0..MaxUint(ByteBits)}
  \cup {Value(k, FALSE, n, <<>>) : k \in SignedKinds, n \in MinInt(ByteBits)..MaxInt(ByteBits)}
  \cup {Value(p \o "float64", FALSE, x, <<>>) :
          p \in {"", "*"}, x \in FloatValues \cup {-4, 4, 5, 1004}}
  \cup {Value(k, TRUE, 0, <<>>) : k \in PointerTo(NumberKinds)}

ReferenceColumns == {Column("reference", TRUE, n, 0, 0, "") : n \in BOOLEAN}
ReferenceInputs ==
  {untypedNil, Value("bool", FALSE, 1, <<>>), Value("*entity", TRUE, 0, <<ReferencedType>>),
   Value("*uint64", TRUE, 0, <<>>)}
  \cup {Value(k, FALSE, id, <<t>>) : k \in {"entity", "*entity", "reference"},
                                     id \in 0..2, t \in EntityTypes}
  \cup {Value(k, FALSE, n, <<>>) : k \in {"uint64", "*uint64", "int64"}, n \in 0..2}
  \cup {Value("string", FALSE, 0, str) : str \in {<<"0">>, <<"7">>, <<"x">>}}

DateColumns == {Column("date", FALSE, n, 0, 0, l) : n \in BOOLEAN, l \in {"date", "datetime"}}
DateInputs ==
  {untypedNil, Value("bool", FALSE, 1, <<>>), Value("*time", TRUE, 0, <<>>)}
  \cup {Value(k, FALSE, 10 * day + sec, <<loc>>) :
          k \in {"time", "*time"}, day \in 0..2, sec \in 0..1, loc \in {"UTC", "Local"}}
  \cup {Value("string", FALSE, 0, str) :
          str \in {<<"1">>, <<"1", ":", "1">>, <<"2", ":", "0">>, <<"x">>, <<>>}}

NextBind ==
  \/ \E col \in NumberColumns, v \in NumberInputs : BindNumber(col, v)
  \/ \E col \in FloatColumns, v \in FloatInputs : BindFloat(col, v)
  \/ \E col \in ReferenceColumns, v \in ReferenceInputs : BindReference(col, v)
  \/ \E col \in DateColumns, v \in DateInputs : BindDate(col, v)
  \/ WriteField

SpecBind == Init /\ [][NextBind]_vars

\* the rows of schema "D" and the binds of their updates
ColumnsD == {"Name", "Code", "FakeDelete"}
RowsD == [ID : 1..MaxID, Name : Vals, Code : Vals, FakeDelete : BOOLEAN]
\* the bind of an update holds the columns whose value changed
ChangedColumns(old, new) == {c \in ColumnsD : old[c] # new[c]}

\* the first update in a behaviour of a stored row of schema "D", up to the
\* end of updateCacheAfterUpdate, on a flusher with nothing accumulated
Invalidated(op, old, new) ==
  LET bind == ChangedColumns(old, new)
      B == updateCacheAfterUpdate([f |-> NewFlusher, rf |-> EmptyRF], "D", old.ID,
                                  old, new, bind)
  IN /\ keysCall = NoKeysCall
     /\ old.ID = new.ID /\ bind # {}
     /\ keysCall' = [op |-> op, old |-> old, bind |-> bind, new |-> new,
                     local |-> B.f.localCacheDeletes, remote |-> B.rf.deletes]
     /\ UnchangedByObjects
     /\ UNCHANGED <<upsertCall, logLogger, cachePool, dbState, pipeLine>>

\* an update that leaves FakeDelete alone
UpdateRow(old, new) ==
  /\ old.FakeDelete = new.FakeDelete
  /\ Invalidated("update", old, new)

\* an update that sets or clears FakeDelete: the row leaves or enters the
\* result of every query
FakeDeleteRow(old, new) ==
  /\ old.FakeDelete # new.FakeDelete
  /\ Invalidated("fakeDelete", old, new)

NextKeys ==
  \/ \E old \in RowsD, new \in RowsD : UpdateRow(old, new)
  \/ \E old \in RowsD, new \in RowsD : FakeDeleteRow(old, new)

SpecKeys == Init /\ [][NextKeys]_vars

----------------------------------------------------------------------------
(* A new entity with an OnDuplicateKeyUpdate clause: lines 375-447 of flush.
   Table U has the primary key ID, a unique index on Name, a unique index on
   Code and the plain column Note; a table is the set of its rows. *)

RowU(ID, Name, Code, Note) == [ID |-> ID, Name |-> Name, Code |-> Code, Note |-> Note]
\* schema.uniqueIndices, a map: its range comes in any order
uniqueIndices == {<<"Name">>, <<"Code">>}
IndexOrders == {order \in [1..2 -> uniqueIndices] : order[1] # order[2]}

\* orm.getDirtyBind() of a new entity: every column; ID is added when the
\* entity has one (lines 381-384, 0 here: not in the bind)
bindOf(entity) == RowU(entity.ID, entity.Name, entity.Code, entity.Note)

\* the rows a new row collides with, and the one MySQL updates: the
\* collision on the first index of the table (PRIMARY, Name, Code)
Conflicts(tbl, bind) ==
  {r \in tbl : \/ bind.ID > 0 /\ r.ID = bind.ID
               \/ bind.Name # Null /\ r.Name = bind.Name
               \/ bind.Code # Null /\ r.Code = bind.Code}
FirstConflict(tbl, bind) ==
  IF \E r \in tbl : bind.ID > 0 /\ r.ID = bind.ID
  THEN CHOOSE r \in tbl : r.ID = bind.ID
  ELSE IF \E r \in tbl : bind.Name # Null /\ r.Name = bind.Name
  THEN CHOOSE r \in tbl : r.Name = bind.Name
  ELSE CHOOSE r \in tbl : r.Code = bind.Code
NextIDU(tbl) == 1 + Cardinality({i \in 1..MaxID : \E r \in tbl : r.ID >= i})
\* the assignments of the clause applied to a row
Assigned(row, onUpdate) ==
  [row EXCEPT !.Note = IF \E a \in onUpdate : a[1] = "Note"
                       THEN (CHOOSE a \in onUpdate : a[1] = "Note")[2] ELSE @]

\* db.Exec of INSERT INTO U(...) VALUES (...) ON DUPLICATE KEY UPDATE ...:
\* RowsAffected is 1 for a new row, 2 for an existing row that changed and
\* 0 for an existing row left as it was; LastInsertId is the id of the row
ExecOnDuplicate(tbl, bind, onUpdate) ==
  IF Conflicts(tbl, bind) = {}
  THEN LET id == IF bind.ID > 0 THEN bind.ID ELSE NextIDU(tbl)
       IN [affected |-> 1, lastID |-> id, table |-> tbl \cup {[bind EXCEPT !.ID = id]}]
  ELSE LET c == FirstConflict(tbl, bind)
           changed == Assigned(c, onUpdate)
       IN IF changed = c
          THEN [affected |-> 0, lastID |-> 0, table |-> tbl]
          ELSE [affected |-> 2, lastID |-> c.ID, table |-> (tbl \ {c}) \cup {changed}]

\* the entity filled from a row that was found
fillFromDBRow(row) == EntityU(row.ID, row.Name, row.Code, row.Note, TRUE, TRUE)
\* loadByID(engine, id, entity, false, lazy)
loadByID(tbl, id, entity) ==
  IF \E r \in tbl : r.ID = id THEN fillFromDBRow(CHOOSE r \in tbl : r.ID = id) ELSE entity
\* lines 431-437: the index is skipped when the bind has nil for one of
\* its columns
RECURSIVE hasNilColumn(_, _)
hasNilColumn(index, bind) ==
  IF index = <<>> THEN FALSE
  ELSE bind[index[1]] = Null \/ hasNilColumn(Tail(index), bind)
\* engine.SearchOne(NewWhere("`c1` = ? AND ...", binds), entity)
SearchOne(tbl, index, bind, entity) ==
  LET found == {r \in tbl : \A i \in 1..Len(index) : r[index[i]] = bind[index[i]]}
  IN IF found = {} THEN entity ELSE fillFromDBRow(CHOOSE r \in found : TRUE)
\* lines 428-443: the loop over schema.uniqueIndices, left at the first index
\* whose columns are all in the bind, whether SearchOne found a row or not
RECURSIVE rehydrate(_, _, _, _)
rehydrate(tbl, order, bind, entity) ==
  IF order = <<>> THEN entity
  ELSE IF hasNilColumn(order[1], bind) THEN rehydrate(tbl, Tail(order), bind, entity)
  ELSE SearchOne(tbl, order[1], bind, entity)

\* lines 375-447 for one entity: the statement, and what the entity is
\* afterwards; cache names the cache update that was made
flushOnDuplicateKey(tbl, entity, onUpdate, order) ==
  LET bind == bindOf(entity)
      result == ExecOnDuplicate(tbl, bind, onUpdate)
      lastID == result.lastID
      \* f.injectBind(entity, bind); orm.idElem.SetUint(lastID)
      injected == [entity EXCEPT !.ID = lastID, !.loaded = TRUE, !.inDB = TRUE]
  IN [table |-> result.table, affected |-> result.affected, lastID |-> lastID, sent |-> 1,
      entity |-> IF result.affected = 1 THEN injected
                 ELSE IF result.affected = 2
                 THEN loadByID(result.table, lastID, Assigned(injected, onUpdate))
                 ELSE rehydrate(tbl, order, bind, entity),
      cache |-> IF result.affected = 1 THEN "inserted"
                ELSE IF result.affected = 2 THEN "updated" ELSE ""]

\* the first flush in a behaviour of a new entity with the clause
FlushOnDuplicateKey(tbl, entity, onUpdate, order) ==
  /\ upsertCall = NoUpsert
  /\ LET r == flushOnDuplicateKey(tbl, entity, onUpdate, order)
     IN upsertCall' = [done |-> TRUE, table |-> tbl, given |-> entity, onUpdate |-> onUpdate,
                       order |-> order, affected |-> r.affected, lastID |-> r.lastID,
                       sent |-> r.sent, entity |-> r.entity, after |-> r.table,
                       cache |-> r.cache]
  /\ UnchangedByObjects
  /\ UNCHANGED <<keysCall, logLogger, cachePool, dbState, pipeLine>>

\* the tables of at most two rows, the new entities and the clauses
StoredRowsU == {RowU(id, n, c, "a") : id \in 1..2, n \in Vals, c \in Vals}
TablesU ==
  {T \in SUBSET StoredRowsU :
     /\ Cardinality(T) <= 2
     /\ \A r, q \in T : r # q => r.ID # q.ID /\ r.Name # q.Name /\ r.Code # q.Code}
NewEntitiesU ==
  {EntityU(id, n, c, "b", FALSE, FALSE) : id \in 0..2, n \in Vals, c \in Vals \cup {Null}}
OnUpdates == {{}} \cup {{<<"Note", v>>} : v \in Vals}

NextUpsert ==
  \E tbl \in TablesU, entity \in NewEntitiesU, onUpdate \in OnUpdates, order \in IndexOrders :
    FlushOnDuplicateKey(tbl, entity, onUpdate, order)

SpecUpsert == Init /\ [][NextUpsert]_vars

----------------------------------------------------------------------------
(* One LocalCache pool used by two goroutines: src/local_cache.go.  Every
   method locks config.m, works on the lru and unlocks on return; GetSet is
   made of Get, the provider and Set. *)

PoolOps == {"Get", "Set", "MSet", "Remove", "Clear", "GetSet"}
TTLs == {0, 1}
\* the value an application stores with Set and MSet
rawValue == 9
otherKey(key) == IF key = "k1" THEN "k2" ELSE "k1"
InCall(g) == cachePool.op[g].pc \notin {"idle", "done"}
UnchangedByCache ==
  /\ UnchangedByObjects
  /\ UNCHANGED <<keysCall, upsertCall, logLogger, dbState, pipeLine>>

\* a goroutine calls a method of the pool
LocalCacheCall(g, name, key, ttl) ==
  /\ ~InCall(g)
  /\ cachePool.n[g] < MaxCacheOps
  /\ LET running == {h \in Goroutines : h # g /\ InCall(h)}
     IN cachePool' = [cachePool EXCEPT
                 !.n[g] = @ + 1,
                 !.op = [h \in Goroutines |->
                           IF h = g
                           THEN [NoCacheCall EXCEPT !.name = name, !.pc = "lock", !.key = key,
                                                    !.ttl = ttl, !.value = rawValue,
                                                    !.with = running]
                           ELSE IF h \in running THEN [cachePool.op[h] EXCEPT !.with = @ \cup {g}]
                           ELSE cachePool.op[h]]]
  /\ UnchangedByCache

\* c.config.m.Lock()
LocalCacheLock(g) ==
  /\ cachePool.op[g].pc \in {"lock", "lockSet"}
  /\ cachePool.m = "free"
  /\ cachePool' = [cachePool EXCEPT !.m = g,
                       !.op[g].pc = IF @ = "lock" THEN "body" ELSE "bodySet"]
  /\ UnchangedByCache

\* a step of g on the lru happened while h was between the Get and the Set
\* of its GetSet
Interleave(ops, g) ==
  [h \in Goroutines |->
     IF h # g /\ ops[h].name = "GetSet" /\ ops[h].pc \in {"provider", "lockSet"}
     THEN [ops[h] EXCEPT !.interleaved = TRUE] ELSE ops[h]]

\* the method returns: the deferred Unlock
Unlocked(cache, g, lru, op) ==
  [cache EXCEPT !.m = "free", !.lru = lru,
                !.op = Interleave([cache.op EXCEPT ![g] = op], g)]

\* lines 62-75: Get
LocalCacheGet(g) ==
  /\ cachePool.op[g].name = "Get" /\ cachePool.op[g].pc = "body" /\ cachePool.m = g
  /\ cachePool' = Unlocked(cachePool, g, cachePool.lru,
                    [cachePool.op[g] EXCEPT !.pc = "done", !.read = cachePool.lru[cachePool.op[g].key],
                                     !.ret = cachePool.lru[cachePool.op[g].key].value])
  /\ UnchangedByCache

\* lines 117-124: Set
LocalCacheSet(g) ==
  /\ cachePool.op[g].name = "Set" /\ cachePool.op[g].pc = "body" /\ cachePool.m = g
  /\ cachePool' = Unlocked(cachePool, g,
                    [cachePool.lru EXCEPT ![cachePool.op[g].key] = Entry(TRUE, cachePool.op[g].value, 0, FALSE)],
                    [cachePool.op[g] EXCEPT !.pc = "done"])
  /\ UnchangedByCache

\* lines 126-136: MSet of two pairs, one lru.Add per step under the lock
LocalCacheMSet(g) ==
  /\ cachePool.op[g].name = "MSet" /\ cachePool.op[g].pc = "body" /\ cachePool.m = g
  /\ LET first == cachePool.op[g].i = 0
         key == IF first THEN cachePool.op[g].key ELSE otherKey(cachePool.op[g].key)
         lru == [cachePool.lru EXCEPT ![key] = Entry(TRUE, cachePool.op[g].value, 0, FALSE)]
     IN cachePool' = IF first
              THEN [cachePool EXCEPT !.lru = lru, !.op = Interleave([@ EXCEPT ![g].i = 2], g)]
              ELSE Unlocked(cachePool, g, lru, [cachePool.op[g] EXCEPT !.pc = "done"])
  /\ UnchangedByCache

\* lines 184-193: Remove
LocalCacheRemove(g) ==
  /\ cachePool.op[g].name = "Remove" /\ cachePool.op[g].pc = "body" /\ cachePool.m = g
  /\ cachePool' = Unlocked(cachePool, g, [cachePool.lru EXCEPT ![cachePool.op[g].key] = NoEntry],
                    [cachePool.op[g] EXCEPT !.pc = "done"])
  /\ UnchangedByCache

\* lines 202-209: Clear
LocalCacheClear(g) ==
  /\ cachePool.op[g].name = "Clear" /\ cachePool.op[g].pc = "body" /\ cachePool.m = g
  /\ cachePool' = Unlocked(cachePool, g, [k \in LCKeys |-> NoEntry], [cachePool.op[g] EXCEPT !.pc = "done"])
  /\ UnchangedByCache

\* line 53: the value is not older than ttlSeconds
notExpired(now, time, ttlSeconds) == now - time <= ttlSeconds

\* lines 49-55 of GetSet: c.Get(key), which locks and unlocks, and the test
\* of what it returned; a value that is no ttlValue fails the type assertion
GetSetGet(g) ==
  /\ cachePool.op[g].name = "GetSet" /\ cachePool.op[g].pc = "body" /\ cachePool.m = g
  /\ LET val == cachePool.lru[cachePool.op[g].key]
         op == [cachePool.op[g] EXCEPT !.read = val]
     IN cachePool' = Unlocked(cachePool, g, cachePool.lru,
                IF val.has /\ ~val.isTTL
                THEN [op EXCEPT !.pc = "done", !.err = "panic"]
                ELSE IF val.has /\ notExpired(cachePool.now, val.time, cachePool.op[g].ttl)
                THEN [op EXCEPT !.pc = "done", !.ret = val.value]
                ELSE [op EXCEPT !.pc = "provider"])
  /\ UnchangedByCache

\* lines 57-58: userVal := provider(); every call of the provider returns a
\* new value
GetSetProvider(g) ==
  /\ cachePool.op[g].name = "GetSet" /\ cachePool.op[g].pc = "provider"
  /\ cachePool' = [cachePool EXCEPT !.provided = @ + 1,
                       !.op[g] = [@ EXCEPT !.pc = "lockSet", !.value = cachePool.provided + 1,
                                           !.provided = TRUE]]
  /\ UnchangedByCache

\* lines 59-60: c.Set(key, val), which locks and unlocks, and the return
GetSetSet(g) ==
  /\ cachePool.op[g].name = "GetSet" /\ cachePool.op[g].pc = "bodySet" /\ cachePool.m = g
  /\ cachePool' = Unlocked(cachePool, g,
                    [cachePool.lru EXCEPT ![cachePool.op[g].key] = Entry(TRUE, cachePool.op[g].value, cachePool.now, TRUE)],
                    [cachePool.op[g] EXCEPT !.pc = "done", !.ret = cachePool.op[g].value])
  /\ UnchangedByCache

\* time.Now().Unix() advances
Tick ==
  /\ cachePool.now < MaxNow
  /\ cachePool' = [cachePool EXCEPT !.now = @ + 1]
  /\ UnchangedByCache

NextLocalCache ==
  \/ \E g \in Goroutines, name \in PoolOps, key \in LCKeys, ttl \in TTLs :
       /\ (name # "GetSet" => ttl = 0)
       /\ LocalCacheCall(g, name, key, ttl)
  \/ \E g \in Goroutines :
       \/ LocalCacheLock(g)
       \/ LocalCacheGet(g)
       \/ LocalCacheSet(g)
       \/ LocalCacheMSet(g)
       \/ LocalCacheRemove(g)
       \/ LocalCacheClear(g)
       \/ GetSetGet(g)
       \/ GetSetProvider(g)
       \/ GetSetSet(g)
  \/ Tick

SpecLocalCache == Init /\ [][NextLocalCache]_vars

----------------------------------------------------------------------------
(* dbImplementation: Begin, Commit and Rollback of one pool                *)

\* what a call on the DB objects and on the pipeline of the other
\* sections leaves alone
UnchangedByDB ==
  /\ UnchangedByObjects
  /\ UNCHANGED <<keysCall, upsertCall, logLogger, cachePool, pipeLine>>

\* ghost: a call on the object `obj`, whether the driver answered without
\* error, whether something was sent to the driver and whether the call
\* panicked
DBCalled(obj, op, ok, sent, panics) ==
  [obj |-> obj, op |-> op, ok |-> ok, sent |-> sent, panics |-> panics]

\* db.transaction after the driver call of Commit and Rollback: set to
\* false before checkError(err); the variant sets it after checkError
afterDriverChecked(ok) == ~ok
afterDriver(ok) == FALSE

\* DB.Begin on the DB object of the pool: checkError, then a new object with
\* transaction = true; db itself is not written
DBBegin(ok) ==
  /\ Len(dbState.calls) < MaxDBOps
  /\ Len(dbState.objs) <= MaxTx
  /\ dbState' = [objs |-> IF ok THEN Append(dbState.objs, DBObject(TRUE, "tx"))
                          ELSE dbState.objs,
                 calls |-> Append(dbState.calls, DBCalled(1, "Begin", ok, TRUE, ~ok))]
  /\ UnchangedByDB

\* DB.Commit: nothing when db.transaction is false; else the driver call,
\* the client is emptied, transaction = false, checkError
DBCommit(i, ok) ==
  /\ Len(dbState.calls) < MaxDBOps
  /\ i \in 1..Len(dbState.objs)
  /\ IF ~dbState.objs[i].transaction
     THEN /\ ok
          /\ dbState' = [dbState EXCEPT
                           !.calls = Append(@, DBCalled(i, "Commit", TRUE, FALSE, FALSE))]
     ELSE dbState' = [dbState EXCEPT
                        !.objs[i] = DBObject(afterDriver(ok), "nil"),
                        !.calls = Append(@, DBCalled(i, "Commit", ok, TRUE, ~ok))]
  /\ UnchangedByDB

\* DB.Rollback: nothing when db.transaction is false; else the driver call,
\* transaction = false, checkError
DBRollback(i, ok) ==
  /\ Len(dbState.calls) < MaxDBOps
  /\ i \in 1..Len(dbState.objs)
  /\ IF ~dbState.objs[i].transaction
     THEN /\ ok
          /\ dbState' = [dbState EXCEPT
                           !.calls = Append(@, DBCalled(i, "Rollback", TRUE, FALSE, FALSE))]
     ELSE dbState' = [dbState EXCEPT
                        !.objs[i].transaction = afterDriver(ok),
                        !.calls = Append(@, DBCalled(i, "Rollback", ok, TRUE, ~ok))]
  /\ UnchangedByDB

NextDB ==
  \/ \E ok \in BOOLEAN : DBBegin(ok)
  \/ \E i \in 1..(MaxTx + 1), ok \in BOOLEAN : DBCommit(i, ok)
  \/ \E i \in 1..(MaxTx + 1), ok \in BOOLEAN : DBRollback(i, ok)

SpecDB == Init /\ [][NextDB]_vars

----------------------------------------------------------------------------
(* RedisPipeLine                                                            *)

UnchangedByPipeLine ==
  /\ UnchangedByObjects
  /\ UNCHANGED <<keysCall, upsertCall, logLogger, cachePool, dbState>>

\* the methods that queue a command
PipeCommands == {"Del", "Get", "Set", "Expire", "HIncrBy", "HSet", "HDel", "XAdd"}
\* what the server answers to the pipeline: no error, redis.Nil, an error
ExecOutcomes == {"ok", "nil", "err"}

\* ghost: a call on the pipeline and the message of its panic
PipeCalled(op, arg, panic) == [op |-> op, arg |-> arg, panic |-> panic]

\* rp.executed after the call of the driver: set before checkError; the
\* variant sets it when the call passed checkError
executedAfterChecked(outcome) == outcome # "err"
executedAfter(outcome) == TRUE

\* Del, Get, Set, Expire, HIncrBy, HSet, HDel, XAdd: count the command and
\* hand it to the pipeliner
PipeQueue(cmd) ==
  /\ Len(pipeLine.calls) < MaxPipeOps
  /\ pipeLine' = [pipeLine EXCEPT !.commands = @ + 1,
                                  !.queued = Append(@, cmd),
                                  !.calls = Append(@, PipeCalled("queue", cmd, ""))]
  /\ UnchangedByPipeLine

\* RedisPipeLine.Exec
PipeExec(outcome) ==
  /\ Len(pipeLine.calls) < MaxPipeOps
  /\ IF pipeLine.executed
     THEN /\ outcome = "ok"
          /\ pipeLine' = [pipeLine EXCEPT
                            !.calls = Append(@, PipeCalled("Exec", outcome,
                                                           "pipeline is already executed"))]
     ELSE pipeLine' = [pipeLine EXCEPT
                         !.sent = Append(@, pipeLine.queued),
                         !.executed = executedAfter(outcome),
                         !.calls = Append(@, PipeCalled("Exec", outcome,
                                                        IF outcome = "err" THEN "err" ELSE ""))]
  /\ UnchangedByPipeLine

\* checkExecuted, then cmd.Result() of the i-th queued command
PipeResult(i) ==
  /\ Len(pipeLine.calls) < MaxPipeOps
  /\ i \in 1..Len(pipeLine.queued)
  /\ pipeLine' = [pipeLine EXCEPT
                    !.calls = Append(@, PipeCalled("Result", pipeLine.queued[i],
                                                   IF ~pipeLine.executed
                                                   THEN "pipeline must be executed first"
                                                   ELSE ""))]
  /\ UnchangedByPipeLine

NextPipeLine ==
  \/ \E cmd \in PipeCommands : PipeQueue(cmd)
  \/ \E outcome \in ExecOutcomes : PipeExec(outcome)
  \/ \E i \in 1..MaxPipeOps : PipeResult(i)

SpecPipeLine == Init /\ [][NextPipeLine]_vars

\* the three streams of the background consumer, fed by flushes of the event
\* schema, by index rebuilds and by foreign producers
NextConsumer ==
  \/ \E e \in EventEntities : Track("g1", e)
  \/ Delete("g1", "e4")
  \/ \E v \in Vals : SetField("g1", "e4", v)
  \/ Ack("g1")
  \/ \E call \in {"Flush", "FlushLazy"} : CallWithin("g1", call, MaxCalls)
  \/ Body("g1")
  \/ \E n \in {lazyChannelName, logChannelName, redisSearchIndexerChannelName} : PublishBad(n)
  \/ \E index \in IndexNames : ForceReindex(index)
  \/ Consume
  \/ HandleLogEvent
  \/ HandleRedisIndexerEvent
  \/ IndexerStep

SpecConsumer == Init /\ [][NextConsumer]_vars

\* flushes of the schema with a log table and the log handler, with and
\* without a LogLogger
NextLog ==
  \/ \E e \in EventEntities : Track("g1", e)
  \/ Delete("g1", "e4")
  \/ \E v \in Vals : SetField("g1", "e4", v)
  \/ Ack("g1")
  \/ CallWithin("g1", "Flush", MaxEventCalls)
  \/ Body("g1")
  \/ PublishBad(logChannelName)
  \/ SetLogLogger
  \/ HandleLogEvent

SpecLog == Init /\ [][NextLog]_vars

----------------------------------------------------------------------------
(* Claims *)

ReturnedFrom(g, callNames) == gs[g].pc = "returned" /\ gs[g].call \in callNames

\* no flush is running, no envelope waits for the consumer, no pool is in a
\* transaction and no driver fault was injected
Settled ==
  /\ fr.pc = "none"
  /\ lazyChannel = <<>> /\ rf.publishes = <<>>
  /\ \A p \in Pools : ~inTransaction[p]
  /\ faults = 0

\* C1: once the flushes are done and the consumer has handled every lazy
\* envelope, the local and the remote cache value under the key of every
\* stored row is absent or the value built from the row
C1_CacheMatchesRows ==
  Settled =>
    \A id \in 1..MaxID :
      table["A"][id] # NoRow =>
        /\ localCache[getCacheKey("A", id)] \in {Absent, RowValue(table["A"], id)}
        /\ redisCache[getCacheKey("A", id)] \in {Absent, RowValue(table["A"], id)}

\* C2: when Flush, FlushLazy or FlushInTransaction has returned without a
\* fault the tracked set is empty and its counter is 0
C2_EmptyAfterFlush ==
  \A g \in Goroutines :
    (ReturnedFrom(g, {"Flush", "FlushLazy", "FlushInTransaction"}) /\ gs[g].res = "nil")
      => (f.trackedEntities = <<>> /\ f.trackedEntitiesCounter = 0)

Rollbacks(g) == {j \in 1..Len(glog[g]) : glog[g][j].ev = "rollback"}

\* C3: when a flush in transaction mode has faulted and pools were rolled
\* back, the local and the remote cache are what they were before the flush
C3_RollbackLeavesCaches ==
  \A g \in Goroutines :
    (/\ ReturnedFrom(g, {"FlushInTransaction", "FlushInTransactionWithCheck"})
     /\ gs[g].res # "nil"
     /\ Rollbacks(g) # {}
     /\ \A p \in Pools : ~inTransaction[p])
      => (localCache = snap.local /\ redisCache = snap.remote)

\* local-cache sets and removals and remote-cache deletes applied by the
\* call of g so far
CacheOps(g) == {j \in 1..Len(glog[g]) : glog[g][j].ev \in {"lset", "lrem", "rdel"}}

\* C4: while a flush in transaction mode runs and a pool it opened has not
\* committed, the flush has applied no local-cache set or removal and no
\* remote-cache operation
C4_NoCacheOpBeforeCommit ==
  (/\ fr.pc # "none" /\ fr.transaction
   /\ \E p \in fr.dbPools : inTransaction[p])
    => CacheOps(fr.owner) = {}

\* C5: when a flush in transaction mode has ended, with or without a fault,
\* no pool is left in an open transaction
C5_NoOpenTransactionAtEnd ==
  \A g \in Goroutines :
    ReturnedFrom(g, {"FlushInTransaction", "FlushInTransactionWithCheck"})
      => \A p \in Pools : ~inTransaction[p]

\* C6: of two goroutines that called Flush concurrently, the one that takes
\* the mutex after the other has finished finds the tracked set empty
C6_SecondHolderSeesEmptySet ==
  \A g \in Goroutines :
    (/\ gs[g].pc = "body" /\ gs[g].concurrent
     /\ \E h \in Goroutines \ {g} :
          gs[h].concurrent /\ gs[h].pc = "returned" /\ gs[h].res = "nil")
      => f.trackedEntities = <<>>

\* C7: FlushWithCheck and FlushInTransactionWithCheck return a duplicate-key
\* or foreign-key error as the error value, re-raise any other fault, in
\* both cases with the tracked set emptied, and return nil without fault
C7_CheckedFlush ==
  \A g \in Goroutines :
    ReturnedFrom(g, {"FlushWithCheck", "FlushInTransactionWithCheck"}) =>
      /\ gs[g].err \in {"dup", "fk"} =>
            (gs[g].res = "error" /\ f.trackedEntities = <<>> /\ f.trackedEntitiesCounter = 0)
      /\ gs[g].err = "other" =>
            (gs[g].res = "panic" /\ f.trackedEntities = <<>> /\ f.trackedEntitiesCounter = 0)
      /\ gs[g].err = "" => gs[g].res = "nil"

\* a checked flush has returned a duplicate-key error
C7_Witness ==
  /\ ReturnedFrom("g1", {"FlushInTransactionWithCheck"})
  /\ gs["g1"].err = "dup" /\ gs["g1"].res = "error"
  /\ f.trackedEntities = <<>>

\* C8: FlushWithFullCheck never faults: a fault of any kind is returned as
\* the error value, and then the tracked set is empty and the buffers
\* Clear resets are empty
C8_FullCheck ==
  \A g \in Goroutines :
    ReturnedFrom(g, {"FlushWithFullCheck"}) =>
      /\ gs[g].res # "panic"
      /\ gs[g].err = "" => gs[g].res = "nil"
      /\ gs[g].err # "" =>
            /\ gs[g].res = "error"
            /\ f.trackedEntities = <<>> /\ f.trackedEntitiesCounter = 0
            /\ \A p \in Pools : f.updateSQLs[p] = <<>>
            /\ \A s \in Schemas : f.deleteBinds[s] = {}
            /\ f.localCacheDeletes = <<>> /\ f.localCacheSets = <<>>

\* FlushWithFullCheck has returned a fault that is neither a duplicate key
\* nor a foreign key
C8_Witness ==
  /\ ReturnedFrom("g1", {"FlushWithFullCheck"})
  /\ gs["g1"].err = "other" /\ gs["g1"].res = "error"
  /\ f.trackedEntities = <<>>

\* C9: the tracked set never holds more entities than the track limit
C9_TrackedWithinLimit == Len(f.trackedEntities) <= TrackLimit

\* C10: after the batch INSERT of a type for which the database generated
\* the ids, the entity at position k of the batch has
\* ID = DbData[0] = LastInsertId + k * autoincrement
C10_BatchIds ==
  \A s \in fr.inserted :
    fr.insertKeys[s] = "noid" =>
      \A k \in 1..Len(fr.insertRows[s]) :
        LET en == ent[fr.insertRows[s][k].e]
            id == fr.lastInsertId[s] + (k - 1) * getAutoincrement(mysqlPoolName(s))
        IN en.ID = id /\ en.dBData.ID = id

\* C20: when EditEntityField calls on the field of a persisted entity have
\* succeeded and the entity has a tracked bind, newBind holds the canonical
\* value of the last call and oldBind the value the field had before the
\* first call
C20_LastEditWins ==
  \A e \in AllEntities :
    LET slot == ctxTracked[<<tableSchema(e), ent[e].ID>>]
    IN (ent[e].inDB /\ lastEdit[e].value # NoBind /\ slot.kind = "fields" /\ slot.value = e)
         => (slot.newBind["Name"] = lastEdit[e].value /\ slot.oldBind["Name"] = lastEdit[e].first)

\* statements of an envelope on a schema for which `hit` holds, counted by
\* the entities they write
RECURSIVE Written(_, _)
Written(qs, logs) ==
  IF qs = <<>> THEN 0
  ELSE LET q == qs[1]
           n == IF q.op = "INSERT" THEN Len(q.rows)
                ELSE IF q.op = "UPDATE" THEN 1 ELSE Cardinality(q.ids)
           counted == IF logs THEN hasLog(q.s) ELSE dirtyFields(q.s) # <<>>
       IN (IF counted THEN n ELSE 0) + Written(Tail(qs), logs)

\* C13: a FlushLazy that has returned without fault executed no SQL and
\* published one envelope, and the "l" and "d" lists of that envelope hold a
\* log row and a dirty event for every entity written by a statement of "q"
\* on a schema with a log table, respectively with dirty streams
C13_LazyEnvelope ==
  \A g \in Goroutines :
    (ReturnedFrom(g, {"FlushLazy"}) /\ gs[g].res = "nil" /\ fr.pc = "none") =>
      /\ \A j \in 1..Len(glog[g]) : glog[g][j].ev # "exec"
      /\ Cardinality({j \in 1..Len(glog[g]) : glog[g][j].ev = "publish"}) <= 1
      /\ lazyChannel # <<>> =>
            LET env == lazyChannel[Len(lazyChannel)]
            IN /\ Len(env.l) = Written(env.q, TRUE)
               /\ Len(env.d) = Written(env.q, FALSE)

\* C14: when the lazy handler has executed an envelope of one INSERT whose
\* LastInsertId is L on a pool of auto-increment step A, the log row and the
\* dirty event of the k-th inserted row both carry L + k * A (k from 0)
C14_LazyInsertIDs ==
  [][(/\ lazyChannel # <<>>
      /\ lazyChannel' = Tail(lazyChannel)
      /\ lazyChannel[1].valid
      /\ Len(lazyChannel[1].q) = 1
      /\ lazyChannel[1].q[1].op = "INSERT") =>
       LET env == lazyChannel[1]
           q == env.q[1]
           A == getAutoincrement(mysqlPoolName(q.s))
           new == {id \in 1..MaxID : table[q.s][id] = NoRow /\ table'[q.s][id] # NoRow}
           L == CHOOSE id \in new : \A o \in new : id <= o
           want(k) == L + (k - 1) * A
       IN new # {} =>
            /\ logTable' = logTable \o [k \in 1..Len(env.l) |-> want(k)]
            /\ \A S \in StreamNames :
                 /\ Len(streams'[S]) = Len(streams[S]) + Cardinality({k \in 1..Len(env.d) :
                                           \E j \in 1..Len(env.d[k].Streams) : env.d[k].Streams[j] = S})
                 /\ \A j \in (Len(streams[S]) + 1)..Len(streams'[S]) :
                      streams'[S][j].I \in {want(k) : k \in 1..Len(q.rows)}
  ]_vars

\* C15: when the lazy handler has executed the INSERT of an envelope, it
\* completes and acks the event, and for every inserted row of a cached
\* schema the row key of the assigned id is among the keys it deletes from
\* the remote cache and among the keys it removes from the local cache
C15_LazyCacheKeys ==
  [][(/\ Quiet
      /\ lazyChannel # <<>>
      /\ lazyChannel[1].valid
      /\ \E id \in 1..MaxID : table["A"][id] = NoRow /\ table'["A"][id] # NoRow) =>
       LET env == lazyChannel[1]
           K == handleCache(env, handleQueries(env.q, table, autoNext, <<>>, env.l, env.d).ids)
           new == {id \in 1..MaxID : table["A"][id] = NoRow /\ table'["A"][id] # NoRow}
       IN /\ lazyChannel' = Tail(lazyChannel)
          /\ \A id \in new :
               /\ \E j \in 1..Len(K.cr) : K.cr[j] = getCacheKey("A", id)
               /\ \E j \in 1..Len(K.cl) : K.cl[j] = getCacheKey("A", id)
  ]_vars

\* C16: executing the statements of a pending lazy envelope a second time
\* (the event is delivered again) leaves every table as the first execution
\* left it
C16_LazyReplay ==
  (Quiet /\ lazyChannel # <<>> /\ lazyChannel[1].valid) =>
    LET env == lazyChannel[1]
        once == handleQueries(env.q, table, autoNext, <<>>, env.l, env.d)
        twice == handleQueries(env.q, once.table, once.next, <<>>, env.l, env.d)
    IN (once.ok /\ (twice.ok \/ twice.dup)) => twice.table = once.table

StreamOf(n) == IF n = lazyChannelName THEN lazyChannel ELSE streams[n]

CoreStreams == {lazyChannelName, logChannelName, redisSearchIndexerChannelName}

\* C18: when the consumer takes an event that cannot be deserialised from
\* one of the three core streams, the event is acked once and the step
\* executes no SQL, touches no cache and publishes nothing
C18_PoisonAcked ==
  [][\A n \in CoreStreams :
       (/\ StreamOf(n) # <<>>
        /\ ~StreamOf(n)[1].valid
        /\ Len(StreamOf(n)') < Len(StreamOf(n))) =>
         /\ StreamOf(n)' = Tail(StreamOf(n))
         /\ bgLast' = Dispatched(n, "bad", 1)
         /\ UNCHANGED <<table, autoNext, logTable, localCache, redisCache, indices>>
         /\ \A m \in CoreStreams \cup StreamNames : m # n => StreamOf(m)' = StreamOf(m)
  ]_vars

\* a poison event has been taken from its stream and acked
C18_PoisonHandled ==
  /\ bgLast.outcome = "bad"
  /\ bgLast.acks = 1
  /\ StreamOf(bgLast.stream) = <<>>

\* the keys of a bind logged under a tag
BindKeys(tag) == IF tag = "ID,Name" THEN {"ID", "Name"} ELSE {"Name"}
Happened(g, ev) == {j \in 1..Len(glog[g]) : glog[g][j].ev = ev}

\* C19: when a flush has returned without fault, for every entity it wrote
\* and every dirty stream S of its schema, one event {E, I, A} was emitted
\* for S (queued for publishing, or put in the lazy envelope) when a column
\* of the list of S is a key of the bind or the list holds "ORM", and none
\* otherwise; A is i, u or d after the kind of write
C19_DirtyEvents ==
  \A g \in Goroutines : \A s \in Schemas : \A j \in 1..Len(dirtyFields(s)) :
    \A A \in {"i", "u", "d"}, id \in 0..MaxID :
      (ReturnedFrom(g, {"Flush", "FlushLazy"}) /\ gs[g].res = "nil") =>
      LET S == dirtyFields(s)[j]
          tracked == {S.columns[c] : c \in 1..Len(S.columns)}
          due == {b \in Happened(g, "bind") :
                    /\ glog[g][b].k = <<s, A, id>>
                    /\ ("ORM" \in tracked \/ tracked \cap BindKeys(glog[g][b].x) # {})}
          sent == {e \in Happened(g, "emit") :
                    glog[g][e].x = S.stream /\ glog[g][e].k = <<s, A, id>>}
      IN Cardinality(sent) = Cardinality(due)

\* C11: in a flush that is not lazy and starts with an unsaved reference,
\* every entity is written when the entity it refers to is stored, and when
\* the flush has returned every tracked entity that was dirty has been
\* written once and no entity twice
C11_ReferencesFirst ==
  \A g \in Goroutines :
    (gs[g].call = "Flush" /\ \E j \in Happened(g, "given") : glog[g][j].x = "reference") =>
      /\ \A w \in Happened(g, "write") : glog[g][w].k[2] # "unsaved"
      /\ \A w, v \in Happened(g, "write") :
           (glog[g][w].k[1] = glog[g][v].k[1] /\ glog[g][w].k[3] = glog[g][v].k[3]) => w = v
      /\ (gs[g].pc = "returned" /\ gs[g].res = "nil") =>
           \A t \in Happened(g, "tracked") :
             LET e == glog[g][t].x
                 n == Cardinality({w \in Happened(g, "write") :
                                     /\ glog[g][w].k[1] = tableSchema(e)
                                     /\ glog[g][w].k[3] = ent[e].ID})
             IN n = IF glog[g][t].k[2] = "dirty" THEN 1 ELSE 0

\* C12: a FlushLazy called with a tracked new entity that carries an
\* OnDuplicateKeyUpdate clause, or with a tracked entity that refers to an
\* entity whose ID is 0, executes no SQL statement, publishes nothing and
\* ends in a fault
C12_LazyUnsupported ==
  \A g \in Goroutines :
    (/\ gs[g].call = "FlushLazy"
     /\ gs[g].pc \in {"body", "returned"}
     /\ Happened(g, "given") # {}) =>
      /\ Happened(g, "exec") = {}
      /\ Happened(g, "publish") = {}
      /\ gs[g].pc = "returned" => gs[g].res = "panic"

\* a FlushLazy with an unsaved reference, and one with an OnDuplicateKeyUpdate
\* clause, has ended in its fault
C12_LazyRefused ==
  \E g \in Goroutines :
    /\ ReturnedFrom(g, {"FlushLazy"})
    /\ gs[g].res = "panic"
    /\ \E j \in Happened(g, "given") : glog[g][j].x \in {"reference", "onDuplicate"}
    /\ lazyChannel = <<>>

\* C21: in every tracked bind a column that newBind and oldBind both hold
\* has different values in the two, the columns added for unique indexes
\* included
C21_BindsDiffer ==
  \A k \in SlotKeys, c \in Columns :
    LET slot == ctxTracked[k]
    IN (slot.kind = "fields" /\ slot.newBind[c] # NoBind /\ slot.oldBind[c] # NoBind)
         => slot.newBind[c] # slot.oldBind[c]

\* C22: a call of EditEntityField with an unknown field, with a value the
\* bind setter rejects, or on an entity tracked for deletion returns a
\* BindError and changes neither the tracked entries nor the entities; a
\* call whose canonical value is the one the field has, with nothing
\* tracked for the entity, returns nil and tracks nothing
C22_EditRefused ==
  [][\A e \in EditEntities, field \in FieldNames, value \in RawValues :
       EditEntityField(e, field, value) =>
         LET slot == ctxTracked[<<tableSchema(e), ent[e].ID>>]
             refused == \/ field \notin Columns
                        \/ setter(value) = BindErr
                        \/ slot.kind = "remove"
             same == /\ ~refused
                     /\ setter(value) = setter(FieldByName(e, field))
                     /\ slot.kind = "none"
         IN /\ refused => (lastEdit'[e].res = "BindError" /\ ctxTracked' = ctxTracked
                              /\ ent' = ent)
            /\ same => (lastEdit'[e].res = "nil" /\ ctxTracked' = ctxTracked)]_vars

\* C23: when no flush is running and no transaction is open, GetAll of the
\* cacheAll schema returns exactly the ids of the rows its table holds
C23_GetAllRows ==
  (Quiet /\ \A p \in Pools : ~inTransaction[p]) => GetAllResult = Search("A")

\* C24: the pages of the cascade loop hold at most 1000 rows (PageSize
\* here) and when the flush of a page has returned its rows are deleted;
\* when a Flush or FlushInTransaction that deleted the parent has returned
\* without a fault, no row of the referencing schema points to the deleted
\* id, and the row keys of the children are invalidated in both caches
C24_CascadeDeletes ==
  /\ \A j \in Happened("g1", "cascade") : glog["g1"][j].k[3] <= PageSize
  /\ (fr.pc = "delete" /\ fr.cur # "") => \A id \in fr.page : table["A"][id] = NoRow
  /\ (/\ ReturnedFrom("g1", {"Flush", "FlushInTransaction"})
      /\ gs["g1"].res = "nil"
      /\ table["B"][LoadedID("e3")] = NoRow)
       => \A c \in CascadeEntities :
            /\ table["A"][LoadedID(c)] = NoRow
            /\ localCache[getCacheKey("A", LoadedID(c))] \in {Absent, cacheNilValue}
            /\ redisCache[getCacheKey("A", LoadedID(c))] = Absent
\* C25: whenever a call of the Indexer returns a nextID that is not above
\* the id it was called with, the handler faults with "loop detected";
\* the cursor strictly increases from one iteration to the next
C25_LoopDetectedAlways ==
  [][IndexerStep =>
       /\ indexing'.last.nextID <= indexing'.last.id =>
            indexing'.pc = "idle" /\ bgLast'.outcome = "fault"
       /\ indexing'.pc = "loop" => indexing'.id > indexing.id
  ]_vars

\* C25, amended: whenever a call of the Indexer reports more rows and
\* returns a nextID that is not above the id it was called with, the
\* handler faults with "loop detected"; the cursor strictly increases from
\* one iteration to the next, and the loop ends within MaxCursor + 1
\* iterations when the ids are at most MaxCursor
C25_LoopDetected ==
  [][IndexerStep =>
       /\ (indexing'.last.hasMore /\ indexing'.last.nextID <= indexing'.last.id) =>
            indexing'.pc = "idle" /\ bgLast'.outcome = "fault"
       /\ indexing'.pc = "loop" => indexing'.id > indexing.id
       /\ indexing.n <= MaxCursor
  ]_vars

\* the Indexer was called with a cursor above 0, reported more rows without
\* advancing, and the handler faulted
C25_LoopFault ==
  /\ indexing.pc = "idle"
  /\ indexing.last.called /\ indexing.last.hasMore
  /\ indexing.last.id > 0
  /\ indexing.last.nextID <= indexing.last.id
  /\ bgLast = Dispatched(redisSearchIndexerChannelName, "fault", 0)


\* C26: once Validate has returned, no call on the source Registry changes
\* what the validated registry shows: its entities, pools, enums, search
\* indexes, stream pools and stream groups
C26_ValidatedImmutable ==
  [][validated # NotValidated => Observable(validated, heap)' = Observable(validated, heap)]_vars

\* the number an accepted input of the integer bind setter stands for: what
\* a decimal string writes, the integer, the float without its fraction
NumericValue(v) ==
  IF v.kind = "string"
  THEN LET signed == v.str # <<>> /\ v.str[1] \in {"-", "+"}
           n == Decimal(IF signed THEN Tail(v.str) ELSE v.str)
       IN IF signed /\ v.str[1] = "-" THEN -n ELSE n
  ELSE IF v.kind \in FloatKinds \cup PointerTo(FloatKinds) THEN truncate(v.val)
  ELSE v.val

\* C27: the integer bind setter of a signed column with bounds [min, max]
\* returns v only if min <= v <= max and v is the number the input stands
\* for; the setter of an unsigned column returns no value for a negative
\* input and no value above max
C27_NumberInRange ==
  (bindCall.setter = "number" /\ bindCall.bind.err = "" /\ ~bindCall.bind.null) =>
    IF ~bindCall.col.unsigned
    THEN /\ bindCall.col.min <= bindCall.bind.v.val
         /\ bindCall.bind.v.val <= bindCall.col.max
         /\ bindCall.bind.v.val = NumericValue(bindCall.given)
    ELSE /\ NumericValue(bindCall.given) >= 0
         /\ bindCall.bind.v.val <= bindCall.col.max

\* the null inputs of a bind setter: untyped nil, a nil pointer of a pointer
\* type the setter accepts, and for a reference an id of 0
NullInput(name, v) ==
  \/ v = untypedNil
  \/ /\ v.isNil
     /\ \/ name = "number" /\ v.kind \in PointerTo(NumberKinds)
        \/ name = "float" /\ v.kind \in PointerTo(FloatKinds)
        \/ name = "reference" /\ v.kind = "*entity"
        \/ name = "date" /\ v.kind = "*time"
  \/ /\ name = "reference" /\ ~v.isNil /\ v.val = 0
     /\ \/ v.kind \in {"entity", "*entity", "reference"} /\ v.str = <<ReferencedType>>
        \/ v.kind \in {"uint64", "*uint64", "int64"}

\* C28: the bind setter of a non-nullable column rejects every null input
\* with a BindError and never returns null for it; the bind setter of a
\* nullable column returns null without error for each of them
C28_NullRejected ==
  (bindCall.setter # "" /\ NullInput(bindCall.setter, bindCall.given)) =>
    IF bindCall.col.nullable
    THEN bindCall.bind = NullBind
    ELSE bindCall.bind.err \notin {"", "panic"}

\* C29: for every input the bind setter of a column accepts, writing the
\* canonical value into the entity with the field setter and binding the
\* field again yields the same canonical value, and binding the canonical
\* value returns it unchanged
C29_RoundTrip ==
  bindCall.stored => bindCall.again = bindCall.bind /\ bindCall.fixed = bindCall.bind

\* what a step of the flush body added to a buffer of the flusher
AddedTo(before, after) ==
  IF Len(after) > Len(before) /\ SubSeq(after, 1, Len(before)) = before
  THEN SubSeq(after, Len(before) + 1, Len(after))
  ELSE <<>>

\* C30: for a schema with local cache, a non-lazy insert or update sets the
\* row key to the cache value built from the entity's DbData and a delete
\* sets it to the nil tombstone; a lazy insert or update sets no row key
\* and removes the row key instead
C30_LocalCacheWrites ==
  [][LET sets == AddedTo(f.localCacheSets, f'.localCacheSets)
         removed == AddedTo(f.localCacheDeletes, f'.localCacheDeletes)
     IN (fr.pc \in {"classify", "insert", "delete"} /\ (sets # <<>> \/ removed # <<>>)) =>
          IF fr.pc = "delete"
          THEN /\ sets # <<>>
               /\ \A j \in 1..Len(sets) :
                    sets[j].key[2] = "row" /\ sets[j].value = cacheNilValue
          ELSE IF fr.lazy
          THEN /\ sets = <<>>
               /\ \E j \in 1..Len(removed) : removed[j][2] = "row"
          ELSE /\ sets # <<>>
               /\ \A j \in 1..Len(sets) :
                    /\ sets[j].key[2] = "row"
                    /\ \E e \in AllEntities :
                         /\ sets[j].key = getCacheKey(tableSchema(e), ent'[e].ID)
                         /\ sets[j].value = buildLocalCacheValue(ent'[e].dBData)
  ]_vars

\* the keys of the parameterised index J of schema "D" for a row
KeyOf(J, row) == getCacheKeySearchOf("D", J.name, attributes("D", J.QueryFields, row))
InSeq(x, seq) == \E i \in 1..Len(seq) : seq[i] = x
KeysOfIndex(J, seq) == {i \in 1..Len(seq) : seq[i][2] = J.name}

\* C31: an update that changes a column tracked by cached index J invalidates,
\* in the local cache and in the remote cache, the key of J computed from the
\* row before the update and the key computed from the row after it; an update
\* with no tracked column of J in its bind that adds or deletes no row
\* invalidates no key of J
C31_IndexKeys ==
  keysCall.op # "" =>
    \A J \in cachedIndexesAll("D") :
      /\ (\E i \in 1..Len(J.TrackedFields) : J.TrackedFields[i] \in keysCall.bind) =>
            /\ InSeq(KeyOf(J, keysCall.old), keysCall.local)
            /\ InSeq(KeyOf(J, keysCall.new), keysCall.local)
            /\ InSeq(KeyOf(J, keysCall.old), keysCall.remote)
            /\ InSeq(KeyOf(J, keysCall.new), keysCall.remote)
      /\ ((\A i \in 1..Len(J.TrackedFields) : J.TrackedFields[i] \notin keysCall.bind)
          /\ keysCall.op = "update") =>
            /\ KeysOfIndex(J, keysCall.local) = {}
            /\ KeysOfIndex(J, keysCall.remote) = {}

\* an update changed one of the two tracked columns of an index, moving the
\* row from one key of the index to another
C31_KeyMoved ==
  /\ keysCall.op = "update" /\ keysCall.bind = {"Code"}
  /\ \E J \in cachedIndexesAll("D") :
       /\ J.name = "byBoth"
       /\ KeyOf(J, keysCall.old) # KeyOf(J, keysCall.new)
       /\ InSeq(KeyOf(J, keysCall.old), keysCall.remote)

\* the events of kind ev on pool p in a log
EventsOn(L, ev, p) == {i \in 1..Len(L) : L[i].ev = ev /\ L[i].x = p}
\* the UPDATE executions in a log
UpdateExecs(L) == {i \in 1..Len(L) : L[i].ev = "exec" /\ L[i].x = "UPDATE"}
\* in Flush a pool with one or two pending UPDATEs gets no transaction, a
\* pool with three or more gets begin, the joined statements, commit, and
\* after a fault the pool is in no transaction; in FlushInTransaction each
\* pool is begun once
Batched ==
  LET L == glog["g1"]
      call == gs["g1"].call
  IN /\ call = "Flush" =>
          \A i \in UpdateExecs(L) :
            LET p == mysqlPoolName(L[i].k[1])
            IN IF L[i].k[3] < 3
               THEN EventsOn(L, "begin", p) = {}
               ELSE /\ i > 1 /\ L[i - 1] = Ev("begin", p, NoKey)
                    /\ i < Len(L) /\ L[i + 1] = Ev("commit", p, NoKey)
     /\ (call = "Flush" /\ gs["g1"].pc = "returned") =>
          \A p \in Pools : ~inTransaction[p]
     /\ call = "FlushInTransaction" =>
          \A p \in Pools : Cardinality(EventsOn(L, "begin", p)) <= 1

\* a pending statement is added at the end of the list of its pool, for the
\* entity the classification loop is at, and the loop moves forward through
\* the tracked entities
AppendedInOrder ==
  /\ \A p \in Pools :
       LET before == f.updateSQLs[p]
           after == f.updateSQLs'[p]
       IN (after # before /\ after # <<>>) =>
            /\ fr.pc = "classify"
            /\ after = Append(before, after[Len(after)])
            /\ after[Len(after)].ID = ent[fr.entities[fr.i]].ID
  /\ (fr.pc = "classify" /\ fr'.pc = "classify" /\ fr'.entities = fr.entities
      /\ fr'.stack = fr.stack) => fr'.i = fr.i + 1

\* C32: at the root of a non-lazy flush one pending UPDATE of a pool is
\* executed alone; three or more on a pool in no transaction are executed
\* joined between a begin and a commit of the engine's own, with a rollback
\* on a fault that leaves the pool in no transaction; a pool already in a
\* transaction gets no second begin; the joined statements are in the order
\* in which their entities were tracked
C32_UpdateBatches == []Batched /\ [][AppendedInOrder]_vars

\* a Flush executed three joined UPDATEs in a transaction of its own and
\* returned
C32_ForcedCommitted ==
  /\ gs["g1"].pc = "returned" /\ gs["g1"].call = "Flush" /\ gs["g1"].err = ""
  /\ \E i \in UpdateExecs(glog["g1"]) :
       /\ glog["g1"][i].k[3] = 3
       /\ glog["g1"][i + 1] = Ev("commit", "p1", NoKey)

\* the row an entity holds
RowOf(entity) == RowU(entity.ID, entity.Name, entity.Code, entity.Note)

\* C33: a new entity with an OnDuplicateKeyUpdate clause is flushed with one
\* statement; with RowsAffected 1 it takes LastInsertId and the insert cache
\* path, with 2 the id of the existing row, reloaded, and the update cache
\* path, with 0 it is filled from the existing row; in every case it ends
\* with a non-zero ID, loaded and in the database
C33_OnDuplicateKey ==
  upsertCall.done =>
    /\ upsertCall.sent = 1
    /\ upsertCall.affected = 1 =>
         /\ upsertCall.entity.ID = upsertCall.lastID
         /\ upsertCall.cache = "inserted"
    /\ upsertCall.affected = 2 =>
         /\ \E r \in upsertCall.table : r.ID = upsertCall.entity.ID
         /\ RowOf(upsertCall.entity) \in upsertCall.after
         /\ upsertCall.cache = "updated"
    /\ upsertCall.affected = 0 => RowOf(upsertCall.entity) \in upsertCall.table
    /\ upsertCall.entity.ID # 0
    /\ upsertCall.entity.loaded /\ upsertCall.entity.inDB

\* C34: with a LogLogger the log handler sends begin, the INSERT, calls the
\* LogLogger once with the inserted id and then commits; when the INSERT or
\* the LogLogger faults it rolls back and the log table is as before; without
\* a LogLogger it sends the INSERT alone
C34_LogHandler ==
  [][(HandleLogEvent /\ Unserialize(streams[logChannelName][1])) =>
       LET ops == bgLast'.ops
           id == Len(logTable) + 1
           row == streams[logChannelName][1].I
       IN IF logLogger
          THEN \/ /\ bgLast'.outcome = "ok"
                  /\ ops = <<Op("begin", 0), Op("exec", id), Op("logLogger", id),
                             Op("commit", 0)>>
                  /\ logTable' = Append(logTable, row)
               \/ /\ bgLast'.outcome = "fault"
                  /\ ops \in {<<Op("begin", 0), Op("exec", 0), Op("rollback", 0)>>,
                               <<Op("begin", 0), Op("exec", id), Op("logLogger", id),
                                 Op("rollback", 0)>>}
                  /\ logTable' = logTable
          ELSE \/ /\ bgLast'.outcome = "ok"
                  /\ ops = <<Op("exec", id)>>
                  /\ logTable' = Append(logTable, row)
               \/ /\ bgLast'.outcome = "fault"
                  /\ ops = <<Op("exec", 0)>>
                  /\ logTable' = logTable]_vars

\* the LogLogger panicked after the INSERT and the log table holds no row
C34_CallbackFault ==
  /\ logLogger /\ bgLast.outcome = "fault" /\ logTable = <<>>
  /\ \E i \in 1..Len(bgLast.ops) : bgLast.ops[i].op = "logLogger"

\* a GetSet that returned after it found no value, or an expired one
Missed(g) ==
  /\ cachePool.op[g].name = "GetSet" /\ cachePool.op[g].pc = "done" /\ cachePool.op[g].err = ""
  /\ ~(cachePool.op[g].read.has /\ notExpired(cachePool.now, cachePool.op[g].read.time, cachePool.op[g].ttl))

\* C35: at most one goroutine works on the lru at a time and no call is
\* interleaved with a step of another; two concurrent GetSet calls of a key
\* that is missing or expired call the provider once and return the same
\* value; a GetSet that finds a value not older than ttlSeconds returns it
\* without calling the provider
C35_LocalCacheAtomic ==
  /\ \A g \in Goroutines : cachePool.op[g].pc \in {"body", "bodySet"} => cachePool.m = g
  /\ \A g \in Goroutines : ~cachePool.op[g].interleaved
  /\ \A g, h \in Goroutines :
       (g # h /\ h \in cachePool.op[g].with /\ cachePool.op[g].key = cachePool.op[h].key
        /\ cachePool.op[g].provided /\ cachePool.op[g].pc = "done"
        /\ cachePool.op[h].name = "GetSet" /\ cachePool.op[h].pc = "done" /\ cachePool.op[h].err = "")
       => ~cachePool.op[h].provided /\ cachePool.op[h].ret = cachePool.op[g].ret
  /\ \A g \in Goroutines :
       (cachePool.op[g].name = "GetSet" /\ cachePool.op[g].pc = "done" /\ cachePool.op[g].err = ""
        /\ cachePool.op[g].read.has
        /\ notExpired(cachePool.now, cachePool.op[g].read.time, cachePool.op[g].ttl))
       => ~cachePool.op[g].provided

\* the executions of the pending statements in a log
Executed(L) == {j \in 1..Len(L) : L[j].ev = "exec" /\ L[j].x \in {"UPDATE", "DELETE"}}
\* the applications of a set of the key k in a log
Applied(L, k) == {j \in 1..Len(L) : L[j].ev = "lset" /\ L[j].k = k}
\* the pending sets of the key k
Pending(sets, k) == {j \in 1..Len(sets) : sets[j].key = k}

\* a step of a running call that sets the key of a pending local-cache set
\* leaves the key set no more often than sets of it were pending
AppliedOnce ==
  \A g \in Goroutines : \A k \in CacheKeys :
    (gs[g].pc = "body" /\ fr.owner = g /\ Len(glog'[g]) > Len(glog[g])
     /\ Applied(glog'[g], k) # Applied(glog[g], k))
      => Cardinality(Applied(glog'[g], k)) <= Cardinality(Pending(f.localCacheSets, k))
\* no pending UPDATE of a pool and no DELETE of a type is executed twice in
\* one call
ExecutedOnce ==
  \A g \in Goroutines :
    \A i, j \in Executed(glog[g]) :
      (glog[g][i].x = glog[g][j].x /\ glog[g][i].k[1] = glog[g][j].k[1]) => i = j

\* C36: within one call of a flush the pending UPDATE statements of a pool
\* and the DELETE of a type are executed at most once and a pending
\* local-cache set is applied at most once, also when flush calls itself
\* for unsaved references or for a cascade
C36_ExecutedOnce == []ExecutedOnce /\ [][AppliedOnce]_vars

\* the statements of a log entry `left` are executed, its cache operation
\* is applied or its envelope is published by the log entry `done`
Executes(done, left) ==
  \/ left.x \in {"UPDATE", "DELETE"} /\ done.ev = "exec" /\ done.x = left.x
     /\ done.k[1] = left.k[1]
  \/ left.x \in {"lset", "lrem"} /\ done.ev = left.x /\ done.k = left.k
  \/ left.x = "lazy" /\ done.ev = "publish"

\* C37: a flush executes, applies and publishes nothing that an earlier
\* Flush, FlushLazy or FlushInTransaction, which ended in a fault, left in
\* the buffers of the flusher
C37_NothingLeft ==
  \A g \in Goroutines :
    \A i \in Happened(g, "left") : \A j \in 1..Len(glog[g]) :
      ~Executes(glog[g][j], glog[g][i])

\* the recursion for unsaved references makes progress: a call of flush is
\* not given an entity that a call enclosing it keeps for its flush(true)
ReferencesDescend ==
  \A i \in 1..Len(fr.rest) : \A j \in 1..Len(fr.entities) : \A k \in 1..Len(fr.rest[i]) :
    (fr.pc = "classify" /\ ~fr.root) => fr.entities[j] # fr.rest[i][k]
\* the cascade loop makes progress: when the flush of a page has returned,
\* the rows of the page are gone and the next search cannot find them again
PagesDescend ==
  (fr.pc = "delete" /\ fr.cur # "") => \A id \in fr.page : table["A"][id] = NoRow

\* C38: a flush that has taken the mutex ends, with a return or a fault: the
\* recursion for unsaved references never comes back to an entity it set
\* out from, every page of the cascade loop is deleted before the next one
\* is searched, and the call reaches its end
C38_Terminates ==
  /\ [](ReferencesDescend /\ PagesDescend)
  /\ (gs["g1"].pc = "body") ~> (gs["g1"].pc = "returned")

\* Commit or Rollback was called on the object i among the first n calls
Ended(i, n) ==
  \E j \in 1..n : dbState.calls[j].obj = i /\ dbState.calls[j].op \in {"Commit", "Rollback"}

\* C39: an object that Begin returned is in a transaction exactly until
\* Commit or Rollback is called on it, whatever the driver answered; only
\* the first Commit or Rollback on it reaches the driver, the later ones and
\* those on the DB object of the pool send nothing and do not fault; the DB
\* object of the pool is never in a transaction and keeps its client
C39_Transaction ==
  /\ \A i \in 2..Len(dbState.objs) :
       dbState.objs[i].transaction = ~Ended(i, Len(dbState.calls))
  /\ dbState.objs[1] = DBObject(FALSE, "db")
  /\ \A j \in 1..Len(dbState.calls) :
       LET c == dbState.calls[j]
       IN c.op \in {"Commit", "Rollback"} =>
            /\ c.sent = (c.obj # 1 /\ ~Ended(c.obj, j - 1))
            /\ ~c.sent => ~c.panics

\* the driver failed the Commit of a transaction object, a later Rollback
\* on the object sent nothing, and a Commit on the DB object of the pool
\* sent nothing either
C39_EndedOnce ==
  \E i, j, k \in 1..Len(dbState.calls) :
    /\ i < j
    /\ dbState.calls[i].obj = 2 /\ dbState.calls[i].op = "Commit" /\ dbState.calls[i].panics
    /\ dbState.calls[j].obj = 2 /\ dbState.calls[j].op = "Rollback" /\ ~dbState.calls[j].sent
    /\ dbState.calls[k].obj = 1 /\ dbState.calls[k].op = "Commit" /\ ~dbState.calls[k].sent
    /\ ~dbState.objs[2].transaction

\* the calls of the operation op among the first n calls on the pipeline
PipeCalls(op, n) == {j \in 1..n : pipeLine.calls[j].op = op}

\* C40: the pipeline is sent to the server at most once and counts as
\* executed from the first Exec on, whatever the server answered; every
\* later Exec panics with "pipeline is already executed"; a Result read
\* before the first Exec panics with "pipeline must be executed first" and
\* none after it; the counter is the number of commands queued
C40_ExecutedOnce ==
  /\ Len(pipeLine.sent) <= 1
  /\ pipeLine.executed = (PipeCalls("Exec", Len(pipeLine.calls)) # {})
  /\ Len(pipeLine.sent) = (IF pipeLine.executed THEN 1 ELSE 0)
  /\ pipeLine.commands = Len(pipeLine.queued)
  /\ pipeLine.commands = Cardinality(PipeCalls("queue", Len(pipeLine.calls)))
  /\ \A j \in 1..Len(pipeLine.calls) :
       LET c == pipeLine.calls[j]
           first == PipeCalls("Exec", j - 1) = {}
       IN /\ c.op = "Exec" =>
               (c.panic = "pipeline is already executed") = ~first
          /\ c.op = "Result" =>
               c.panic = (IF first THEN "pipeline must be executed first" ELSE "")

\* a Result was refused before Exec, the first Exec ended with the error
\* of the server and the second one with "pipeline is already executed"
C40_SecondExec ==
  /\ Len(pipeLine.calls) = 4
  /\ pipeLine.calls[1].op = "queue"
  /\ pipeLine.calls[2] = PipeCalled("Result", pipeLine.queued[1], "pipeline must be executed first")
  /\ pipeLine.calls[3] = PipeCalled("Exec", "err", "err")
  /\ pipeLine.calls[4] = PipeCalled("Exec", "ok", "pipeline is already executed")
  /\ pipeLine.sent = <<pipeLine.queued>>

====
